---- MODULE Spec2Model ----
(***************************************************************************)
(* The memoizing layer builder of morphcloud.experimental: Snapshot.apply  *)
(* and the keyed operations run, copy_ and do built on it, over a snapshot *)
(* store that is queried by digest.                                        *)
(*                                                                         *)
(* Python strings are sequences of one-character strings, so that          *)
(* concatenation, joining, stripping and containment are computed and not  *)
(* assumed.                                                                *)
(***************************************************************************)
EXTENDS Integers, Sequences, FiniteSets, TLC

\* ------------------------------------------------------------------ bounds

\* Snapshots the store ever creates in one behaviour (initial ones included).
MaxSnapshots == 4

\* Largest max_lines of a progress buffer, and calls of _append_stream_chunk
\* on one buffer.
MaxLinesBound == 3
MaxFeeds == 4

\* Chunks of output a remote command writes before it exits.
MaxWrites == 2

\* Panels the renderer is given in one behaviour.
MaxPanels == 2

\* ----------------------------------------------------------------- strings

\* Python's None where a string is expected (a snapshot's digest).
None == <<"<None>">>

Digits == <<"0", "1", "2", "3", "4", "5", "6", "7", "8", "9">>

RECURSIVE StrNat(_)
StrNat(n) ==
    IF n < 10 THEN <<Digits[n + 1]>>
    ELSE StrNat(n \div 10) \o <<Digits[(n % 10) + 1]>>

\* str(n) of a Python int.
Str(n) == IF n < 0 THEN <<"-">> \o StrNat(0 - n) ELSE StrNat(n)

\* sub in s, for Python strings.
Contains(s, sub) ==
    \E i \in 0..(Len(s) - Len(sub)) : SubSeq(s, i + 1, i + Len(sub)) = sub

\* sep.join(parts)
RECURSIVE Join(_, _)
Join(parts, sep) ==
    IF parts = <<>> THEN <<>>
    ELSE IF Len(parts) = 1 THEN parts[1]
    ELSE parts[1] \o sep \o Join(Tail(parts), sep)

\* The ids the store hands out: "s1", "s2", ...
IdStr(n) == <<"s">> \o Str(n)

\* -------------------------------------------------------------- operations

RUN == "run"
COPY == "copy_"
DO == "do"
RESIZE == "resize"

\* sizes: vcpus, memory and disk_size of a resize, each <<>> for None or <<n>>.
Op(kind, cmd, src, dest, instr, names) ==
    [kind |-> kind, cmd |-> cmd, src |-> src, dest |-> dest,
     instr |-> instr, names |-> names, sizes |-> <<>>]

OpRun(cmd) == Op(RUN, cmd, <<>>, <<>>, <<>>, <<>>)
OpCopy(src, dest) == Op(COPY, <<>>, src, dest, <<>>, <<>>)
OpDo(instr, names) == Op(DO, <<>>, <<>>, <<>>, instr, names)
OpResize(vcpus, memory, disk_size) ==
    [Op(RESIZE, <<>>, <<>>, <<>>, <<>>, <<>>) EXCEPT
        !.sizes = <<vcpus, memory, disk_size>>]

\* apply(func, key=k, invalidate=...) with a function of the caller.
APPLY == "apply"
OpApply(key) == Op(APPLY, key, <<>>, <<>>, <<>>, <<>>)

NoOp == Op("none", <<>>, <<>>, <<>>, <<>>, <<>>)

\* The calls of one caller building layers: a command, a copy, an agent task.
Ops ==
    { OpRun(<<"c">>),
      OpCopy(<<"a">>, <<"c">>),
      OpDo(<<"s", "1">>, <<>>) }

\* Calls whose descriptors differ in one part only: a hyphen moved between src
\* and dest, a verify function added, another command.
KeyOps ==
    { OpRun(<<"c">>),
      OpRun(<<"d">>),
      OpCopy(<<"a", "-", "b">>, <<"c">>),
      OpCopy(<<"a">>, <<"b", "-", "c">>),
      OpDo(<<"s", "1">>, <<>>),
      OpDo(<<"s", "1">>, << <<"s", "1">> >>) }

\* Calls of different kinds whose keys read the same: a command that spells
\* the key of a copy_, a command that spells the key of a resize.
CrossOps ==
    { OpCopy(<<"a">>, <<"c">>),
      OpRun(<<"c", "o", "p", "y", "-", "a", "-", "c">>),
      OpResize(<<2>>, <<>>, <<>>),
      OpRun(<<"r", "e", "s", "i", "z", "e", "-", "2", "-", "N", "o", "n", "e",
              "-", "N", "o", "n", "e">>) }

\* Agent tasks without and with a verify function.
DoOps ==
    { OpDo(<<"s", "1">>, <<>>),
      OpDo(<<"s", "1">>, << <<"v", "1">> >>) }

\* A run of the empty command, whose key is empty, and one with a key.
NoKeyOps == { OpRun(<<>>), OpRun(<<"c">>) }

\* A function of the caller, a command and a resize: what each returns to
\* apply differs.
FuncOps == { OpApply(<<"k">>), OpRun(<<"c">>), OpResize(<<2>>, <<>>, <<>>) }

\* The calls that obtain an instance, one of each kind.
LifeOps == Ops \cup { OpResize(<<2>>, <<>>, <<>>) }

\* The call two threads make at the same time.
ConcOps == { OpRun(<<"c">>) }

\* Copies of a local file f to destinations of every shape.
CopySrcs == { <<"f">>, <<"l", "/", "f">> }
CopyDests ==
    { <<"d">>, <<"d", "/">>, <<"/", "d">>, <<"/", "d", "/">>, <<"d", "/", "e">>,
      <<"d", "/", "e", "/">>, <<"/">>, <<"d", "/", "/">> }
CopyOps == { OpCopy(src, dest) : src \in CopySrcs, dest \in CopyDests }

\* What the local path src of a copy_ is when execute_copy looks at it.
SrcKinds == {"missing", "file", "dir"}

\* What a local directory holds: nothing, a file x, or a directory s with a
\* file y.
LocalTrees == { <<>>, << <<"x">> >>, << <<"s">>, <<"y">> >> }

\* invalidate: False, True, or a predicate over snapshots.
Invalidates == {"False", "True", "Fn"}

\* Exit codes of a remote command (recv_exit_status gives -1 without one).
ExitCodes == {0, 17, -1}

\* Text of the bounded output buffer when the command ends.
Outputs == {<<>>, <<"o">>}

Threads == {1, 2}

\* ------------------------------------------------------------------- paths

\* p.split("/")
RECURSIVE SplitSlash(_)
SplitSlash(p) ==
    IF \A i \in 1..Len(p) : p[i] # "/" THEN <<p>>
    ELSE LET k == CHOOSE i \in 1..Len(p) :
                      p[i] = "/" /\ \A j \in 1..(i - 1) : p[j] # "/"
         IN  <<SubSeq(p, 1, k - 1)>> \o SplitSlash(SubSeq(p, k + 1, Len(p)))

\* The components of a path: empty ones and "." do not count.
Parts(p) == SelectSeq(SplitSlash(p), LAMBDA c : c # <<>> /\ c # <<".">>)

RECURSIVE LeadingSlashes(_)
LeadingSlashes(p) ==
    IF p = <<>> \/ p[1] # "/" THEN 0 ELSE 1 + LeadingSlashes(Tail(p))

\* The root of a PurePosixPath: "", "/" or (for exactly two slashes) "//".
PathRoot(p) ==
    CASE LeadingSlashes(p) = 0 -> <<>>
      [] LeadingSlashes(p) = 2 -> <<"/", "/">>
      [] OTHER -> <<"/">>

\* str() of the path with this root and these components.
PathStr(root, parts) ==
    IF root = <<>> /\ parts = <<>> THEN <<".">> ELSE root \o Join(parts, <<"/">>)

Front(q) == SubSeq(q, 1, Len(q) - 1)

\* str(Path(p).parent)
PathParent(p) ==
    PathStr(PathRoot(p), IF Parts(p) = <<>> THEN <<>> ELSE Front(Parts(p)))

\* Path(p).name
PathName(p) == IF Parts(p) = <<>> THEN <<>> ELSE Parts(p)[Len(Parts(p))]

\* dest.endswith("/")
EndsWithSlash(p) == p # <<>> /\ p[Len(p)] = "/"

\* dest.rstrip("/")
RECURSIVE RStripSlash(_)
RStripSlash(p) == IF EndsWithSlash(p) THEN RStripSlash(Front(p)) ELSE p

\* -------------------------------------------------- the instance's file system

\* The file the server resolves a path to: from the root, or from the
\* directory the SFTP session starts in.
Node(abs, parts) == [abs |-> abs, parts |-> parts]
Resolve(p) == Node(PathRoot(p) # <<>>, Parts(p))
Child(n, name) == Node(n.abs, Append(n.parts, name))
ParentNode(n) == Node(n.abs, Front(n.parts))
StartDirs == {Node(TRUE, <<>>), Node(FALSE, <<>>)}

NoFs == [dirs |-> {}, files |-> {}]
NoNode == Node(FALSE, <<>>)

\* sftp.stat(p): "missing" stands for its FileNotFoundError.
SftpStat(fs, p) ==
    CASE Resolve(p) \in fs.dirs -> "dir"
      [] Resolve(p) \in fs.files -> "file"
      [] OTHER -> "missing"

\* A transfer in progress: the file system, whether an SFTP call has failed
\* and with which error, the remote path the last file was put at, and the
\* remote paths files were put at; calls is the sequence of the mkdir and put
\* requests issued so far, each with the file system it was issued on.
Transfer(fs) ==
    [fs |-> fs, ok |-> TRUE, err |-> "none", target |-> NoNode, puts |-> {},
     calls |-> <<>>]

\* The transfer with one more request issued.
Issued(st, op, p) ==
    [st EXCEPT !.calls = Append(st.calls, [op |-> op, at |-> Resolve(p), fs |-> st.fs])]

\* The exception of a failed SFTP request on the node n: the server answers
\* "no such file" for a path that is missing or runs through a file, which the
\* client raises as FileNotFoundError, and a plain failure otherwise.
SftpError(fs, n) ==
    IF n.parts # <<>> /\ ParentNode(n) \notin fs.dirs THEN "ENOENT" ELSE "FAILURE"

\* F of the value of x; the value is computed once, however often F uses it.
Once(x, F(_)) == CHOOSE r \in {F(v) : v \in {x}} : TRUE

\* sftp.mkdir(p)
SftpMkdir(st0, p) ==
    Once(st0, LAMBDA st :
        IF SftpStat(st.fs, p) = "missing" /\ ParentNode(Resolve(p)) \in st.fs.dirs
        THEN [Issued(st, "mkdir", p) EXCEPT !.fs.dirs = st.fs.dirs \cup {Resolve(p)}]
        ELSE [Issued(st, "mkdir", p) EXCEPT
                  !.ok = FALSE, !.err = SftpError(st.fs, Resolve(p))])

\* sftp.put(local, p)
SftpPut(st0, p) ==
    Once(st0, LAMBDA st :
        IF /\ Resolve(p) \notin st.fs.dirs
           /\ Resolve(p).parts # <<>>
           /\ ParentNode(Resolve(p)) \in st.fs.dirs
        THEN [Issued(st, "put", p) EXCEPT
                  !.fs.files = st.fs.files \cup {Resolve(p)}, !.target = Resolve(p),
                  !.puts = st.puts \cup {Resolve(p)}]
        ELSE [Issued(st, "put", p) EXCEPT
                  !.ok = FALSE, !.err = SftpError(st.fs, Resolve(p)),
                  !.target = Resolve(p)])

\* ensure_remote_dir without the call for the parent.
MutEnsureNoParent(st0, remote_path) ==
    Once(st0, LAMBDA st :
        IF ~st.ok \/ SftpStat(st.fs, remote_path) # "missing" THEN st
        ELSE SftpMkdir(st, remote_path))

\* The number of calls of ensure_remote_dir that ensure_remote_dir(remote_path)
\* makes, itself included, when every sftp.stat raises FileNotFoundError.
RECURSIVE EnsureDepth(_)
EnsureDepth(remote_path) ==
    LET parent == PathParent(remote_path) IN
    IF parent # remote_path /\ parent # <<"/">>
    THEN 1 + EnsureDepth(parent)
    ELSE 1

\* ensure_remote_dir(remote_path)
RECURSIVE ensure_remote_dir(_, _)
ensure_remote_dir(st0, remote_path) ==
    Once(st0, LAMBDA st :
        IF ~st.ok \/ SftpStat(st.fs, remote_path) # "missing" THEN st
        ELSE LET parent == PathParent(remote_path) IN
             Once(IF parent # remote_path /\ parent # <<"/">>
                  THEN ensure_remote_dir(st, parent)
                  ELSE st,
                  LAMBDA up : IF up.ok THEN SftpMkdir(up, remote_path) ELSE up))

\* copy_file(local_file, remote_file); a failing chmod is swallowed.
copy_file(st, remote_file) ==
    LET remote_dir == PathParent(remote_file) IN
    Once(IF remote_dir # remote_file
         THEN ensure_remote_dir(st, remote_dir)
         ELSE st,
         LAMBDA made : IF made.ok THEN SftpPut(made, remote_file) ELSE made)

\* The remote path of a single file: "if src_path.is_file()".
MutRemoteFileLiteral(fs, src, dest) ==
    IF EndsWithSlash(dest)
    THEN RStripSlash(dest) \o <<"/">> \o PathName(src)
    ELSE dest
RemoteFile(fs, src, dest) ==
    IF EndsWithSlash(dest)
    THEN RStripSlash(dest) \o <<"/">> \o PathName(src)
    ELSE IF SftpStat(fs, dest) = "dir"
    THEN dest \o <<"/">> \o PathName(src)
    ELSE dest

\* The main copy logic for a source that is a file.
CopySingleFile(fs, src, dest) ==
    copy_file(Transfer(fs), RemoteFile(fs, src, dest))

\* copy_directory(local_dir, remote_dir) for a local directory with one entry
\* at each level: tree is the chain of names below local_dir, the last one a
\* file, the others directories (<<>>: an empty directory).
RECURSIVE copy_directory(_, _, _)
copy_directory(st, tree, remote_dir) ==
    LET remote_item == remote_dir \o <<"/">> \o tree[1] IN
    Once(ensure_remote_dir(st, remote_dir), LAMBDA made :
        IF ~made.ok \/ tree = <<>> THEN made
        ELSE IF Len(tree) = 1 THEN copy_file(made, remote_item)
        ELSE copy_directory(made, Tail(tree), remote_item))

\* The main copy logic for a source that is a directory. The try block around
\* sftp.stat(dest) also holds copy_directory(src_path, dest/name), so its
\* "except FileNotFoundError" handler runs for that call's failures as well.
CopyTree(fs, src, dest, tree) ==
    LET st == Transfer(fs) IN
    IF EndsWithSlash(dest)
    THEN copy_directory(st, tree, RStripSlash(dest) \o <<"/">> \o PathName(src))
    ELSE CASE SftpStat(fs, dest) = "dir" ->
                  Once(copy_directory(st, tree, dest \o <<"/">> \o PathName(src)),
                       LAMBDA into :
                           IF into.err = "ENOENT"
                           THEN copy_directory([into EXCEPT !.ok = TRUE, !.err = "none"],
                                               tree, dest)
                           ELSE into)
           [] SftpStat(fs, dest) = "file" ->
                  [st EXCEPT !.ok = FALSE, !.err = "ValueError"]
           [] OTHER -> copy_directory(st, tree, dest)

\* The chain of directories down to a node, the node included.
Prefixes(n) == {Node(n.abs, SubSeq(n.parts, 1, k)) : k \in 1..Len(n.parts)}

\* The file systems an instance may have where a copy to dest looks: the path
\* exists down to some depth as directories, the next component is missing or
\* a file, and under an existing dest the file's name is missing, a file or a
\* directory.
RemoteFs(src, dest) ==
    LET n == Resolve(dest)
        name == Child(n, PathName(src))
        upTo(k) == StartDirs \cup {d \in Prefixes(n) : Len(d.parts) <= k}
    IN  UNION {{[dirs |-> upTo(k), files |-> {}],
                [dirs |-> upTo(k),
                 files |-> {Node(n.abs, SubSeq(n.parts, 1, k + 1))}]} :
                   k \in 0..(Len(n.parts) - 1)}
        \cup {[dirs |-> upTo(Len(n.parts)), files |-> {}],
              [dirs |-> upTo(Len(n.parts)), files |-> {name}],
              [dirs |-> upTo(Len(n.parts)) \cup {name}, files |-> {}]}

\* ------------------------------------------------------- the progress buffer

\* ELLIPSIS, the truncation marker: one character for its text, and its "\n".
ELLIPSIS == <<"~", "\n">>

\* chunk.splitlines(keepends=True), for text whose only line break is "\n".
RECURSIVE SplitLines(_)
SplitLines(s) ==
    IF s = <<>> THEN <<>>
    ELSE IF \A i \in 1..Len(s) : s[i] # "\n" THEN <<s>>
    ELSE LET k == CHOOSE i \in 1..Len(s) :
                      s[i] = "\n" /\ \A j \in 1..(i - 1) : s[j] # "\n"
         IN  <<SubSeq(s, 1, k)>> \o SplitLines(SubSeq(s, k + 1, Len(s)))

\* for ln in chunk.splitlines(keepends=True): buf.append((ln, style))
AppendLines(buf, chunk, style) ==
    buf \o [i \in 1..Len(SplitLines(chunk)) |-> <<SplitLines(chunk)[i], style>>]

\* while len(buf) > max_lines: buf.popleft()
MutTrimNever(buf, max_lines) == buf
TrimOld(buf, max_lines) ==
    IF Len(buf) > max_lines
    THEN SubSeq(buf, Len(buf) - max_lines + 1, Len(buf))
    ELSE buf

\* The rebuilt Text: the pieces appended to it, each with its style.
Rebuild(buf, max_lines) ==
    (IF Len(buf) = max_lines THEN <<<<ELLIPSIS, "dim">>>> ELSE <<>>) \o buf

\* text_obj.plain
RECURSIVE Plain(_)
Plain(pieces) ==
    IF pieces = <<>> THEN <<>> ELSE pieces[1][1] \o Plain(Tail(pieces))

\* _append_stream_chunk(buf, chunk, text_obj, style=style, max_lines=max_lines):
\* the deque and the Text after the call.
append_stream_chunk(o, chunk, style, max_lines) ==
    LET buf == TrimOld(AppendLines(o.buf, chunk, style), max_lines)
    IN  [o EXCEPT !.buf = buf, !.text = Rebuild(buf, max_lines),
                  !.chunks = Append(o.chunks, chunk)]

\* A deque and its Text before any chunk: buf = deque(), out_text = Text().
NewOut(max_lines) ==
    [max_lines |-> max_lines, buf |-> <<>>, text |-> <<>>, chunks |-> <<>>]

\* The chunks fed to a buffer, with the style they are fed with: whole lines,
\* two lines at once, a line without its end, nothing, an empty line.
Feeds ==
    { <<<<"a", "\n">>, "none">>, <<<<"b", "\n">>, "error">>,
      <<<<"a", "\n", "b", "\n">>, "none">>, <<<<"a">>, "none">>,
      <<<<>>, "none">>, <<<<"\n">>, "error">> }

\* ------------------------------------------------------------------- state

VARIABLES
    store,      \* the snapshot store, in list order: records [id, digest, by, base]
    nextId,     \* number of the next snapshot the store creates
    instances,  \* ids of the running instances
    th,         \* per thread: the call in progress, its locals and what it did
    prev,       \* per thread: the call that thread completed last
    out,        \* a progress buffer: max_lines, the deque, the Text, chunks fed
    chan,       \* the SSH channel of a remote command and the command's process
    gen,        \* the generator ssh_stream: where it stands, the events it yielded
    exec,       \* the consumer of the stream: instance_exec within run's execute
    ui,         \* the renderer: its lock, its panels, what each thread does to them
    vr,         \* the verifier of a do: its functions, where it stands, its errors
    crash,      \* kernel crash faults: the snapshot's metadata, the fault under way
    browser     \* the browser sessions of the example and their instances

layerVars == <<store, nextId, instances, th, prev>>
streamVars == <<chan, gen, exec>>
auxVars == <<vr, crash, browser>>
ioVars == <<out, chan, gen, exec, ui, vr, crash, browser>>
vars ==
    <<store, nextId, instances, th, prev, out, chan, gen, exec, ui, vr, crash,
      browser>>

\* -------------------------------------------------------------- ContentKey

\* Snapshot.key_to_digest
key_to_digest(base, key) ==
    (IF base.digest = None THEN <<>> ELSE base.digest) \o base.id \o key

\* The key each operation hands to apply.
RunKey(op) == op.cmd
CopyKey(op) == <<"c", "o", "p", "y", "-">> \o op.src \o <<"-">> \o op.dest
DoDescriptor(op) == op.instr \o Join(op.names, <<",">>)

\* str() of a size in the f-string of resize's key.
SizeStr(x) == IF x = <<>> THEN <<"N", "o", "n", "e">> ELSE Str(x[1])
ResizeKey(op) ==
    <<"r", "e", "s", "i", "z", "e", "-">> \o SizeStr(op.sizes[1]) \o <<"-">>
        \o SizeStr(op.sizes[2]) \o <<"-">> \o SizeStr(op.sizes[3])

\* ------------------------------------------------------------- the store

\* client.snapshots.list(digest=dg): the matching records in store order.
ListByDigest(st, dg) == SelectSeq(st, LAMBDA s : s.digest = dg)

\* s.delete()
DeleteId(st, id) == SelectSeq(st, LAMBDA s : s.id # id)

\* inst.snapshot(digest=dg): a new record at the end of the store.
\* by and base say which call on which handle made the record.
BaseOf(b) == [id |-> b.id, digest |-> b.digest]

NewSnapshot(n, dg, op, base) ==
    [id |-> IdStr(n), digest |-> dg, by |-> op, base |-> base]

NoBase == [id |-> <<>>, digest |-> None]

\* A snapshot made by Snapshot.create or found by id: no digest of a layer.
Root == NewSnapshot(1, None, NoOp, NoBase)

StoreIds(st) == {st[i].id : i \in 1..Len(st)}

\* The stores a behaviour starts from: the root alone, or the root and two
\* records that already carry the digest of run("c") on it.
InitStores ==
    { <<Root>>,
      <<Root,
        NewSnapshot(2, key_to_digest(Root, <<"c">>), OpRun(<<"c">>), BaseOf(Root)),
        NewSnapshot(3, key_to_digest(Root, <<"c">>), OpRun(<<"c">>), BaseOf(Root))>> }

\* ----------------------------------------------------------------- threads

\* The handle a call was made on and everything the call holds and did.
\*   key      the key handed to apply          snaps   apply's local snaps
\*   todo     snapshots the invalidation loop has still to visit
\*   inst     the instance of the with block (0: none)
\*   listed   what apply's list call returned (ids, in store order)
\*   started, executed, ssh, sftp, deleted, persisted: what the call did
\*   store0, id0   the store and its id counter when the call was made
\*   fs0, fs       the instance's files before and after execute_copy
\*   target        the remote path the file of a copy_ was put at
\*   calls         the mkdir and put requests of execute_copy, in order
\*   tree, puts    the local directory of a copy_ and where its files were put
Idle ==
    [pc |-> "idle", op |-> NoOp, inv |-> "False", srcKind |-> "unseen",
     base |-> Root, key |-> <<>>, snaps |-> <<>>, todo |-> <<>>, inst |-> 0,
     listed |-> <<>>, started |-> 0, executed |-> FALSE, ssh |-> FALSE,
     sftp |-> FALSE, deleted |-> {}, persisted |-> <<>>, outcome |-> "none",
     hitBy |-> "none", result |-> <<>>, error |-> <<>>, exit |-> 0,
     store0 |-> <<>>, id0 |-> 0, fs0 |-> NoFs, fs |-> NoFs, target |-> NoNode,
     tree |-> <<>>, puts |-> {}, calls |-> <<>>, said |-> {}, running |-> FALSE,
     verified |-> "none", queried |-> FALSE, got |-> 0, res |-> 0,
     snapped |-> 0]

NoCall == [op |-> NoOp, base |-> NoBase, ok |-> FALSE]

\* The channel before exec_command: up says whether a session can be opened,
\* todo how many chunks the process may still write, wrote what it has
\* written to each descriptor.
NewChan(up) ==
    [up |-> up, out |-> <<>>, err |-> <<>>, todo |-> MaxWrites,
     exited |-> FALSE, code |-> 0, closed |-> FALSE,
     wrote |-> [out |-> <<>>, err |-> <<>>]]

NewGen == [pc |-> "start", events |-> <<>>]

NoReport == [kind |-> "none", msg |-> <<>>]

\* consumer: instance_exec, or a caller that iterates ssh_stream to its end.
NewExec(consumer) ==
    [consumer |-> consumer, pc |-> "idle", code |-> 0, error |-> <<>>,
     calls |-> <<>>, report |-> NoReport]

\* The renderer after Renderer(): the lock is free (0), no panel, no thread
\* at work. mid: the threads whose panel is between two steps of a change.
\* partial: a refresh has rendered while a panel was between two steps.
\* live: self._live.is_started. view: the number of panels the live view was
\* last given. was, how, entry: per thread, live_was_running of its pause
\* scope, how the body of the scope ended, and the panels and the view when
\* the scope was entered. inner: the thread is in a call of add_panel or
\* refresh it made from the body of its own pause scope.
NewUi ==
    [lock |-> 0, panels |-> 0, pc |-> [t \in Threads |-> "idle"],
     mid |-> {}, partial |-> FALSE, live |-> FALSE, view |-> 0,
     was |-> [t \in Threads |-> FALSE], how |-> [t \in Threads |-> "none"],
     entry |-> [t \in Threads |-> <<0, 0>>],
     inner |-> [t \in Threads |-> FALSE]]

\* ------------------------------------------------------ do: the verifier

MaxChecks == 3

\* What func(inst) of a verify function does: it returns None, True or False,
\* or it raises Exception(ErrorText).
CheckDoes == {"none", "true", "false", "raises"}

\* func.__name__: two functions of a list may bear the same name.
CheckNames == {<<"v", "1">>, <<"v", "2">>}

\* str(e) of the exception a verify function raises.
ErrorText == <<"n", "o">>

VerifyFuncs == [name : CheckNames, does : CheckDoes]

VerifyLists == UNION {[1..n -> VerifyFuncs] : n \in 0..MaxChecks}

\* The statuses of the VerificationPanel: "r" stands for the hourglass and
\* " running", "p" for the check mark and " passed", "f" for the cross and
\* " failed".
StatusRunning == <<"r">>
StatusPassed == <<"p">>
StatusFailed(error_msg) == <<"f", " ", "(">> \o error_msg \o <<")">>

\* f"{func.__name__}: {error_msg}"
ErrorEntry(name, error_msg) == name \o <<":", " ">> \o error_msg

\* verifier(inst) about to run. current_agent: whether the thread-local
\* holds an agent. ran: the names of the functions called so far. stored:
\* the errors were given to the agent as its _last_verification_errors.
\* result: "none" until verifier returns, then "True" or "False".
NewVerifier(verify_funcs, current_agent) ==
    [verify_funcs |-> verify_funcs, current_agent |-> current_agent,
     pc |-> "call", i |-> 1, ran |-> <<>>, statuses |-> <<>>,
     verification_errors |-> <<>>, all_ok |-> TRUE, stored |-> FALSE,
     last_verification_errors |-> <<>>, result |-> "none"]

\* VerificationPanel(verify_funcs)._statuses
PanelStatuses(verify_funcs) ==
    [n \in {verify_funcs[k].name : k \in DOMAIN verify_funcs} |-> StatusRunning]

\* One turn of "for func in verify_funcs": func(inst) in its try block, whose
\* value is dropped, and the except Exception block.
MutTryCheckPropagates(v, func) ==
    LET run == [v EXCEPT !.ran = Append(v.ran, func.name), !.i = v.i + 1] IN
    IF func.does = "raises"
    THEN [run EXCEPT !.pc = "raised"]
    ELSE [run EXCEPT !.statuses[func.name] = StatusPassed]
TryCheck(v, func) ==
    LET run == [v EXCEPT !.ran = Append(v.ran, func.name), !.i = v.i + 1] IN
    IF func.does = "raises"
    THEN [run EXCEPT !.statuses[func.name] = StatusFailed(ErrorText),
                     !.verification_errors =
                         Append(v.verification_errors,
                                ErrorEntry(func.name, ErrorText)),
                     !.all_ok = FALSE]
    ELSE [run EXCEPT !.statuses[func.name] = StatusPassed]

\* verifier(inst) up to the loop: no verify function, or no current agent,
\* and it returns True.
VerifierCall ==
    /\ vr.pc = "call"
    /\ IF vr.verify_funcs = <<>> \/ ~vr.current_agent
       THEN vr' = [vr EXCEPT !.pc = "done", !.result = "True"]
       ELSE vr' = [vr EXCEPT !.pc = "loop",
                             !.statuses = PanelStatuses(vr.verify_funcs)]
    /\ UNCHANGED <<layerVars, out, streamVars, ui, crash, browser>>

VerifierCheck ==
    /\ vr.pc = "loop"
    /\ vr.i <= Len(vr.verify_funcs)
    /\ vr' = TryCheck(vr, vr.verify_funcs[vr.i])
    /\ UNCHANGED <<layerVars, out, streamVars, ui, crash, browser>>

\* current_agent._last_verification_errors = verification_errors;
\* return all_ok
VerifierReturn ==
    /\ vr.pc = "loop"
    /\ vr.i > Len(vr.verify_funcs)
    /\ vr' = [vr EXCEPT !.pc = "done", !.stored = TRUE,
                        !.last_verification_errors = vr.verification_errors,
                        !.result = IF vr.all_ok THEN "True" ELSE "False"]
    /\ UNCHANGED <<layerVars, out, streamVars, ui, crash, browser>>

\* ------------------------------------------------- kernel crash faults

MaxCrashes == 3

UpperCase ==
    <<"A", "B", "C", "D", "E", "F", "G", "H", "I", "J", "K", "L", "M", "N",
      "O", "P", "Q", "R", "S", "T", "U", "V", "W", "X", "Y", "Z">>

LowerCase ==
    <<"a", "b", "c", "d", "e", "f", "g", "h", "i", "j", "k", "l", "m", "n",
      "o", "p", "q", "r", "s", "t", "u", "v", "w", "x", "y", "z">>

\* c.lower() of one character.
LowerChar(c) ==
    IF \E i \in 1..Len(UpperCase) : UpperCase[i] = c
    THEN LowerCase[CHOOSE i \in 1..Len(UpperCase) : UpperCase[i] = c]
    ELSE c

\* s.lower()
Lower(s) == [i \in 1..Len(s) |-> LowerChar(s[i])]

\* test_crash_logic.py: the message of test 1
MsgOutOfMemory ==
    <<"P", "r", "o", "c", "e", "s", "s", " ", "k", "i", "l", "l", "e", "d",
      " ", "d", "u", "e", " ", "t", "o", " ", "o", "u", "t", " ", "o", "f",
      " ", "m", "e", "m", "o", "r", "y">>

\* test_crash_logic.py: the message of test 2
MsgTimeout ==
    <<"E", "x", "e", "c", "u", "t", "i", "o", "n", " ", "t", "i", "m", "e",
      "o", "u", "t", " ", "e", "x", "c", "e", "e", "d", "e", "d">>

\* test_crash_logic.py: the message of test 3
MsgDied ==
    <<"K", "e", "r", "n", "e", "l", " ", "p", "r", "o", "c", "e", "s", "s",
      " ", "d", "i", "e", "d", " ", "u", "n", "e", "x", "p", "e", "c", "t",
      "e", "d", "l", "y">>

\* a message in capitals
MsgUpperOom ==
    <<"O", "O", "M">>

\* a message with a word of each kind
MsgBothWords ==
    <<"M", "e", "m", "o", "r", "y", " ", "T", "I", "M", "E", "O", "U", "T">>

\* a message without any of the words
MsgTimedOut ==
    <<"T", "i", "m", "e", "d", " ", "o", "u", "t">>

\* the empty message
MsgEmpty ==
    <<>>

Messages ==
    {MsgOutOfMemory, MsgTimeout, MsgDied, MsgUpperOom,
     MsgBothWords, MsgTimedOut, MsgEmpty}

OOM_KILL == "OOM_KILL"
TIMEOUT == "TIMEOUT"
KERNEL_DIED == "KERNEL_DIED"

\* The crash type of a failure message: the words are looked for in the
\* message in lower case, memory and oom first.
MutInferCaseSensitive(message) ==
    IF Contains(message, <<"m", "e", "m", "o", "r", "y">>)
       \/ Contains(message, <<"o", "o", "m">>)
    THEN OOM_KILL
    ELSE IF Contains(message, <<"t", "i", "m", "e", "o", "u", "t">>)
    THEN TIMEOUT
    ELSE KERNEL_DIED
infer_crash_type(message) ==
    LET m == Lower(message) IN
    IF Contains(m, <<"m", "e", "m", "o", "r", "y">>)
       \/ Contains(m, <<"o", "o", "m">>)
    THEN OOM_KILL
    ELSE IF Contains(m, <<"t", "i", "m", "e", "o", "u", "t">>)
    THEN TIMEOUT
    ELSE KERNEL_DIED

\* A CrashRecord: the time of the crash, the kernel, its language, the type
\* inferred from the message, the message, the instance of the sandbox.
CrashRecord(timestamp, message) ==
    [timestamp |-> timestamp, kernel_id |-> "kernel-123", language |-> "python",
     crash_type |-> infer_crash_type(message), message |-> message,
     instance_id |-> "instance-123"]

\* test_crash_display.py: a crash already in the history of the snapshot.
old_crash ==
    [timestamp |-> 0, kernel_id |-> "kernel-old", language |-> "python",
     crash_type |-> KERNEL_DIED, message |-> <<"K", "e", "r", "n", "e", "l", " ", "d", "i", "e", "d">>,
     instance_id |-> "instance-456"]

\* The metadata of the owning snapshot before the first crash of a run: a
\* key of the user, a crash history, or both.
Metadatas ==
    { ("some_key" :> <<"some_value">>),
      ("crash_history" :> <<old_crash>>),
      ("some_key" :> <<"some_value">>) @@ ("crash_history" :> <<old_crash>>) }

\* metadata.get("crash_history", [])
History(metadata) ==
    IF "crash_history" \in DOMAIN metadata THEN metadata["crash_history"] ELSE <<>>

\* The metadata with the record appended to its crash history.
MutRecordCrashReplaces(metadata, record) ==
    ("crash_history" :> <<record>>) @@ metadata
RecordCrash(metadata, record) ==
    ("crash_history" :> Append(History(metadata), record)) @@ metadata

\* metadata: the metadata of the snapshot in the store. metadata0: what it
\* was at first. current: what snapshots.get returned. faults: the messages
\* of the faults that reached the caller. now: the clock.
NewCrash(metadata) ==
    [metadata |-> metadata, metadata0 |-> metadata, pc |-> "idle",
     message |-> <<>>, current |-> metadata, faults |-> <<>>, now |-> 1]

\* A kernel dies: KernelCrashedException(message, kernel_id, language, sandbox)
KernelCrash ==
    /\ crash.pc = "idle"
    /\ Len(crash.faults) < MaxCrashes
    /\ \E message \in Messages :
          crash' = [crash EXCEPT !.pc = "get", !.message = message]
    /\ UNCHANGED <<layerVars, out, streamVars, ui, vr, browser>>

\* client.snapshots.get(instance.snapshot_id).metadata
CrashGet ==
    /\ crash.pc = "get"
    /\ crash' = [crash EXCEPT !.pc = "set", !.current = crash.metadata]
    /\ UNCHANGED <<layerVars, out, streamVars, ui, vr, browser>>

\* client.snapshots.set_metadata(snapshot_id, metadata)
CrashSet ==
    /\ crash.pc = "set"
    /\ crash' = [crash EXCEPT
                    !.pc = "raise",
                    !.metadata = RecordCrash(crash.current,
                                             CrashRecord(crash.now, crash.message))]
    /\ UNCHANGED <<layerVars, out, streamVars, ui, vr, browser>>

\* The fault reaches the caller.
CrashRaise ==
    /\ crash.pc = "raise"
    /\ crash' = [crash EXCEPT !.pc = "idle", !.now = crash.now + 1,
                              !.faults = Append(crash.faults, crash.message)]
    /\ UNCHANGED <<layerVars, out, streamVars, ui, vr, browser>>

\* ------------------------------------------------ examples: BrowserSession

MaxSessions == 2

Sessions == 1..MaxSessions

\* No session yet. sess: per session, where its create or its close stands;
\* the instance of session s is instance s. running: the instances that run.
\* exposed: the instances whose cdp-server service is exposed.
NewBrowser ==
    [sess |-> [s \in Sessions |-> "none"], running |-> {}, exposed |-> {}]

\* BrowserSession.create: the snapshot is built and instance = snapshot.start(),
\* outside any with block; a failure of either raises.
BrowserCreate(s) ==
    /\ browser.sess[s] = "none"
    /\ \E started \in BOOLEAN :
          IF started
          THEN browser' = [browser EXCEPT !.sess[s] = "verify",
                                          !.running = browser.running \cup {s}]
          ELSE browser' = [browser EXCEPT !.sess[s] = "failed"]
    /\ UNCHANGED <<layerVars, out, streamVars, ui, vr, crash>>

\* instance.exec("google-chrome --version"): a stopped instance or an exit
\* code other than 0 raises.
BrowserVerifyChrome(s) ==
    /\ browser.sess[s] = "verify"
    /\ \E exit_code \in {0, 1} :
          browser' = [browser EXCEPT !.sess[s] =
                         IF s \in browser.running /\ exit_code = 0
                         THEN "chrome" ELSE "failed"]
    /\ UNCHANGED <<layerVars, out, streamVars, ui, vr, crash>>

\* Chrome and socat are started; for i in range(30): Chrome answers, or the
\* loop ends and create raises.
BrowserWaitChrome(s) ==
    /\ browser.sess[s] = "chrome"
    /\ \E ready \in BOOLEAN :
          browser' = [browser EXCEPT !.sess[s] =
                         IF s \in browser.running /\ ready
                         THEN "proxy" ELSE "failed"]
    /\ UNCHANGED <<layerVars, out, streamVars, ui, vr, crash>>

\* for i in range(10): the proxy answers, or the loop ends and create raises.
BrowserWaitProxy(s) ==
    /\ browser.sess[s] = "proxy"
    /\ \E ready \in BOOLEAN :
          browser' = [browser EXCEPT !.sess[s] =
                         IF s \in browser.running /\ ready
                         THEN "expose" ELSE "failed"]
    /\ UNCHANGED <<layerVars, out, streamVars, ui, vr, crash>>

\* instance.expose_http_service(name="cdp-server", port=9223), and
\* return cls(instance, cdp_url, connect_url)
BrowserExpose(s) ==
    /\ browser.sess[s] = "expose"
    /\ IF s \in browser.running
       THEN browser' = [browser EXCEPT !.sess[s] = "ready",
                                       !.exposed = browser.exposed \cup {s}]
       ELSE browser' = [browser EXCEPT !.sess[s] = "failed"]
    /\ UNCHANGED <<layerVars, out, streamVars, ui, vr, crash>>

\* The instance is stopped by someone else, or its time to live ends.
InstanceStops(s) ==
    /\ s \in browser.running
    /\ browser' = [browser EXCEPT !.running = browser.running \ {s},
                                  !.exposed = browser.exposed \ {s}]
    /\ UNCHANGED <<layerVars, out, streamVars, ui, vr, crash>>

\* close(): self._instance.exec("pkill -f cdp_proxy.py || true"); on a
\* stopped instance it raises, and "except: pass" ends close.
BrowserCloseProxy(s) ==
    /\ browser.sess[s] = "ready"
    /\ browser' = [browser EXCEPT !.sess[s] =
                      IF s \in browser.running THEN "socat" ELSE "closed"]
    /\ UNCHANGED <<layerVars, out, streamVars, ui, vr, crash>>

\* self._instance.exec("pkill -f 'TCP-LISTEN:9223' || true")
BrowserCloseSocat(s) ==
    /\ browser.sess[s] = "socat"
    /\ browser' = [browser EXCEPT !.sess[s] =
                      IF s \in browser.running THEN "hide" ELSE "closed"]
    /\ UNCHANGED <<layerVars, out, streamVars, ui, vr, crash>>

\* self._instance.hide_http_service("cdp-server"), and close returns.
BrowserCloseHide(s) ==
    /\ browser.sess[s] = "hide"
    /\ browser' = [browser EXCEPT !.sess[s] = "closed",
                                  !.exposed = browser.exposed \ {s}]
    /\ UNCHANGED <<layerVars, out, streamVars, ui, vr, crash>>

\* Neither a verifier nor a crash nor a browser session is at work.
Still ==
    /\ vr = NewVerifier(<<>>, FALSE)
    /\ crash = NewCrash("some_key" :> <<"some_value">>)
    /\ browser = NewBrowser

\* Nothing is displayed and no command is streaming.
Quiet ==
    /\ out = NewOut(0)
    /\ chan = NewChan(FALSE)
    /\ gen = NewGen
    /\ exec = NewExec("none")
    /\ ui = NewUi

Init ==
    /\ Still
    /\ store \in InitStores
    /\ nextId = Len(store) + 1
    /\ instances = {}
    /\ th = [t \in Threads |-> Idle]
    /\ prev = [t \in Threads |-> NoCall]
    /\ Quiet

\* A call may begin while the store can still create a snapshot for it.
CanCall(t) == th[t].pc = "idle" /\ nextId <= MaxSnapshots

Begin(t, op, inv, b, key, pc) ==
    th' = [th EXCEPT ![t] = [Idle EXCEPT !.pc = pc, !.op = op, !.inv = inv,
                                         !.base = b, !.key = key,
                                         !.store0 = store, !.id0 = nextId]]

\* Leaving the with block: Instance.__exit__ stops the instance.
StopInstance(insts, i) == insts \ {i}

\* An exception leaves apply: the with block (if entered) is left on the way.
MutRaiseLeak(t, err, fields) ==
    /\ th' = [th EXCEPT ![t] = [fields EXCEPT !.pc = "done", !.outcome = "raised",
                                              !.error = err, !.inst = 0]]
    /\ UNCHANGED instances
Raise(t, err, fields) ==
    /\ th' = [th EXCEPT ![t] = [fields EXCEPT !.pc = "done", !.outcome = "raised",
                                              !.error = err, !.inst = 0]]
    /\ instances' = StopInstance(instances, th[t].inst)

\* snaps[0]
MutLastHit(snaps) == snaps[Len(snaps)]
FirstHit(snaps) == snaps[1]

\* return Snapshot(snaps[0])
Hit(t, snaps, who, fields) ==
    th' = [th EXCEPT ![t] = [fields EXCEPT !.pc = "done", !.outcome = "hit",
                                           !.hitBy = who,
                                           !.result = FirstHit(snaps).id]]

\* ------------------------------------------------------------ Snapshot.run

\* run(command, invalidate): apply(execute, key=command, invalidate=invalidate)
Run(t, O, I) ==
    /\ CanCall(t)
    /\ \E op \in {o \in O : o.kind = RUN}, inv \in I, i \in 1..Len(store) :
          Begin(t, op, inv, store[i], RunKey(op), "list")
    /\ UNCHANGED <<store, nextId, instances, prev>>

\* The message of the exception execute raises on a nonzero exit code.
MutFailureMessageNoExit(command, exit_code, plain) ==
    <<"C", "o", "m", "m", "a", "n", "d", " ", "e", "x", "e", "c", "u", "t", "i", "o", "n", " ", "f", "a", "i", "l", "e", "d", ":", " ">> \o command
        \o <<" ", "s", "t", "d", "o", "u", "t", "=">> \o plain \o <<" ", "s", "t", "d", "e", "r", "r", "=">> \o plain
FailureMessage(command, exit_code, plain) ==
    <<"C", "o", "m", "m", "a", "n", "d", " ", "e", "x", "e", "c", "u", "t", "i", "o", "n", " ", "f", "a", "i", "l", "e", "d", ":", " ">> \o command
        \o <<" ", "e", "x", "i", "t", "=">> \o Str(exit_code)
        \o <<" ", "s", "t", "d", "o", "u", "t", "=">> \o plain \o <<" ", "s", "t", "d", "e", "r", "r", "=">> \o plain

\* execute(instance): instance_exec, then raise on a nonzero exit code. An
\* exception of instance_exec (lost: the stream ended without an exit code)
\* passes through.
ExecuteRun(t) ==
    /\ th[t].pc = "func"
    /\ th[t].op.kind = RUN
    /\ \E n \in ExitCodes, plain \in Outputs, lost \in BOOLEAN :
          LET ran == [th[t] EXCEPT !.executed = TRUE, !.ssh = TRUE, !.exit = n] IN
          /\ lost => n = 0 /\ plain = <<>>
          /\ IF lost
             THEN Raise(t, <<"StreamError">>, ran)
             ELSE IF n # 0
             THEN Raise(t, FailureMessage(th[t].op.cmd, n, plain), ran)
             ELSE /\ th' = [th EXCEPT ![t] = [ran EXCEPT !.pc = "snapshot"]]
                  /\ UNCHANGED instances
    /\ UNCHANGED <<store, nextId, prev>>

\* ---------------------------------------------------------- Snapshot.copy_

\* copy_(src, dest, invalidate): apply(execute_copy, key="copy-{src}-{dest}")
Copy(t, O, I) ==
    /\ CanCall(t)
    /\ \E op \in {o \in O : o.kind = COPY}, inv \in I, i \in 1..Len(store) :
          Begin(t, op, inv, store[i], CopyKey(op), "list")
    /\ UNCHANGED <<store, nextId, instances, prev>>

\* execute_copy(instance): the SSH and SFTP sessions are opened, then the local
\* source is looked at, then the files are transferred; any failing SFTP call
\* raises.
ExecuteCopy(t) ==
    /\ th[t].pc = "func"
    /\ th[t].op.kind = COPY
    /\ \E kind \in SrcKinds, fs0 \in RemoteFs(th[t].op.src, th[t].op.dest),
          tree \in LocalTrees :
          LET opened == [th[t] EXCEPT !.ssh = TRUE, !.sftp = TRUE,
                                      !.srcKind = kind]
              copy == IF kind = "file"
                      THEN CopySingleFile(fs0, th[t].op.src, th[t].op.dest)
                      ELSE CopyTree(fs0, th[t].op.src, th[t].op.dest, tree)
              done == [opened EXCEPT !.executed = TRUE, !.fs0 = fs0, !.tree = tree,
                                     !.fs = copy.fs, !.target = copy.target,
                                     !.puts = copy.puts, !.calls = copy.calls]
          IN
          /\ kind = "file" => tree = <<>>
          /\ kind = "missing" => tree = <<>> /\ fs0.files = {} /\ fs0.dirs = StartDirs
          /\ IF kind = "missing"
             THEN Raise(t, <<"FileNotFoundError">>, opened)
             ELSE IF copy.ok
             THEN /\ th' = [th EXCEPT ![t] = [done EXCEPT !.pc = "snapshot"]]
                  /\ UNCHANGED instances
             ELSE Raise(t, IF copy.err = "ValueError" THEN <<"ValueError">>
                           ELSE <<"CopyError">>, done)
    /\ UNCHANGED <<store, nextId, prev>>

\* ------------------------------------------------------------- Snapshot.do

\* do(instructions, verify, invalidate): the digest do computes for its own
\* cache check, which it later hands to apply as the key.
DoDigest(base, op) == key_to_digest(base, DoDescriptor(op))

Do(t, O, I) ==
    /\ CanCall(t)
    /\ \E op \in {o \in O : o.kind = DO}, inv \in I, i \in 1..Len(store) :
          Begin(t, op, inv, store[i], DoDigest(store[i], op), "do_list")
    /\ UNCHANGED <<store, nextId, instances, prev>>

\* snaps_exist = client.snapshots.list(digest=digest); a hit returns the first,
\* anything else goes on to apply(run_agent, key=digest, invalidate=invalidate).
DoList(t) ==
    /\ th[t].pc = "do_list"
    /\ LET snaps_exist == ListByDigest(store, th[t].key) IN
       IF snaps_exist # <<>> /\ th[t].inv = "False"
       THEN Hit(t, snaps_exist, "do", th[t])
       ELSE th' = [th EXCEPT ![t].pc = "list"]
    /\ UNCHANGED <<store, nextId, instances, prev>>

\* What the verifier answered the agent last, if the agent called it: without
\* verify functions it answers True.
VerifierAnswers(op) ==
    IF op.names = <<>> THEN {"none", "passed"} ELSE {"none", "passed", "failed"}

\* run_agent(instance): agent_visual.run(instance, instructions, verifier),
\* which calls the verifier as it sees fit and ends still running (a failure)
\* or not; if agent_visual.running: raise.
MutRunAgentRaisesOnVerify(t) ==
    /\ th[t].pc = "func"
    /\ th[t].op.kind = DO
    /\ \E running \in BOOLEAN, verified \in VerifierAnswers(th[t].op) :
          LET ran == [th[t] EXCEPT !.executed = TRUE, !.running = running,
                                   !.verified = verified] IN
          IF running \/ verified = "failed"
          THEN Raise(t, <<"AgentError">>, ran)
          ELSE /\ th' = [th EXCEPT ![t] = [ran EXCEPT !.pc = "snapshot",
                                                     !.res = th[t].inst]]
               /\ UNCHANGED instances
    /\ UNCHANGED <<store, nextId, prev>>
RunAgent(t) ==
    /\ th[t].pc = "func"
    /\ th[t].op.kind = DO
    /\ \E running \in BOOLEAN, verified \in VerifierAnswers(th[t].op) :
          LET ran == [th[t] EXCEPT !.executed = TRUE, !.running = running,
                                   !.verified = verified] IN
          IF running
          THEN Raise(t, <<"AgentError">>, ran)
          ELSE /\ th' = [th EXCEPT ![t] = [ran EXCEPT !.pc = "snapshot",
                                                     !.res = th[t].inst]]
               /\ UNCHANGED instances
    /\ UNCHANGED <<store, nextId, prev>>

\* --------------------------------------------------------- Snapshot.resize

\* resize(vcpus, memory, disk_size, invalidate): apply(lambda x: x,
\* key="resize-...", start_fn=boot_snapshot); invalidate is a bool.
Resize(t, O, I) ==
    /\ CanCall(t)
    /\ \E op \in {o \in O : o.kind = RESIZE}, inv \in I \ {"Fn"},
          i \in 1..Len(store) :
          Begin(t, op, inv, store[i], ResizeKey(op), "list")
    /\ UNCHANGED <<store, nextId, instances, prev>>

\* lambda x: x on the booted instance.
ExecuteResize(t) ==
    /\ th[t].pc = "func"
    /\ th[t].op.kind = RESIZE
    /\ th' = [th EXCEPT ![t].pc = "snapshot", ![t].executed = TRUE,
                        ![t].res = th[t].inst]
    /\ UNCHANGED <<store, nextId, instances, prev>>

\* ----------------------------------------------------------- Snapshot.apply

\* invalidate_fn(Snapshot(s)): the constant for a bool, any answer the
\* predicate gives for a callable.
MutInvalidateNever(inv) == {FALSE}
InvalidateAnswers(inv) == IF inv = "True" THEN {TRUE} ELSE BOOLEAN

\* if key: digest = key_to_digest(key); snaps = list(digest=digest), followed
\* by "if snaps: return Snapshot(snaps[0])" when invalidate is falsy.
MutApplyListInvalidates(t) ==
    /\ th[t].pc = "list"
    /\ IF th[t].key # <<>>
       THEN LET snaps == ListByDigest(store, key_to_digest(th[t].base, th[t].key))
                seen == [th[t] EXCEPT !.snaps = snaps, !.queried = TRUE,
                                      !.listed = [i \in 1..Len(snaps) |-> snaps[i].id]]
            IN  th' = [th EXCEPT ![t] = [seen EXCEPT !.pc = "invalidate",
                                                     !.todo = snaps,
                                                     !.snaps = <<>>]]
       ELSE th' = [th EXCEPT ![t].pc = "start"]
    /\ UNCHANGED <<store, nextId, instances, prev>>
MutApplyListIgnoresKey(t) ==
    /\ th[t].pc = "list"
    /\ LET snaps == ListByDigest(store, key_to_digest(th[t].base, th[t].key))
           seen == [th[t] EXCEPT !.snaps = snaps, !.queried = TRUE,
                                 !.listed = [i \in 1..Len(snaps) |-> snaps[i].id]]
       IN  IF th[t].inv # "False"
           THEN th' = [th EXCEPT ![t] = [seen EXCEPT !.pc = "invalidate",
                                                     !.todo = snaps,
                                                     !.snaps = <<>>]]
           ELSE IF snaps # <<>>
           THEN Hit(t, snaps, "apply", seen)
           ELSE th' = [th EXCEPT ![t] = [seen EXCEPT !.pc = "start"]]
    /\ UNCHANGED <<store, nextId, instances, prev>>
ApplyList(t) ==
    /\ th[t].pc = "list"
    /\ IF th[t].key # <<>>
       THEN LET snaps == ListByDigest(store, key_to_digest(th[t].base, th[t].key))
                seen == [th[t] EXCEPT !.snaps = snaps, !.queried = TRUE,
                                      !.listed = [i \in 1..Len(snaps) |-> snaps[i].id]]
            IN  IF th[t].inv # "False"
                THEN th' = [th EXCEPT ![t] = [seen EXCEPT !.pc = "invalidate",
                                                          !.todo = snaps,
                                                          !.snaps = <<>>]]
                ELSE IF snaps # <<>>
                THEN Hit(t, snaps, "apply", seen)
                ELSE th' = [th EXCEPT ![t] = [seen EXCEPT !.pc = "start"]]
       ELSE th' = [th EXCEPT ![t].pc = "start"]
    /\ UNCHANGED <<store, nextId, instances, prev>>

\* One turn of "for s in snaps": s.delete() or valid.append(s). Deleting a
\* snapshot that is no longer in the store is an error of the store. said:
\* the snapshots invalidate_fn answered True for.
MutApplyInvalidateNoDelete(t) ==
    /\ th[t].pc = "invalidate"
    /\ th[t].todo # <<>>
    /\ LET s == Head(th[t].todo) IN
       \E del \in InvalidateAnswers(th[t].inv) :
          LET next == [th[t] EXCEPT !.todo = Tail(th[t].todo),
                                    !.said = IF del THEN th[t].said \cup {s.id}
                                             ELSE th[t].said] IN
          IF del
          THEN /\ th' = [th EXCEPT ![t] = next]
               /\ UNCHANGED <<store, instances>>
          ELSE /\ th' = [th EXCEPT ![t] =
                            [next EXCEPT !.snaps = Append(th[t].snaps, s)]]
               /\ UNCHANGED <<store, instances>>
    /\ UNCHANGED <<nextId, prev>>
MutApplyInvalidateInverted(t) ==
    /\ th[t].pc = "invalidate"
    /\ th[t].todo # <<>>
    /\ LET s == Head(th[t].todo) IN
       \E del \in InvalidateAnswers(th[t].inv) :
          LET next == [th[t] EXCEPT !.todo = Tail(th[t].todo),
                                    !.said = IF del THEN th[t].said \cup {s.id}
                                             ELSE th[t].said] IN
          IF ~del
          THEN IF s.id \in StoreIds(store)
               THEN /\ store' = DeleteId(store, s.id)
                    /\ th' = [th EXCEPT ![t] =
                                 [next EXCEPT !.deleted = th[t].deleted \cup {s.id}]]
                    /\ UNCHANGED instances
               ELSE /\ Raise(t, <<"ApiError">>, next)
                    /\ UNCHANGED store
          ELSE /\ th' = [th EXCEPT ![t] =
                            [next EXCEPT !.snaps = Append(th[t].snaps, s)]]
               /\ UNCHANGED <<store, instances>>
    /\ UNCHANGED <<nextId, prev>>
ApplyInvalidate(t) ==
    /\ th[t].pc = "invalidate"
    /\ th[t].todo # <<>>
    /\ LET s == Head(th[t].todo) IN
       \E del \in InvalidateAnswers(th[t].inv) :
          LET next == [th[t] EXCEPT !.todo = Tail(th[t].todo),
                                    !.said = IF del THEN th[t].said \cup {s.id}
                                             ELSE th[t].said] IN
          IF del
          THEN IF s.id \in StoreIds(store)
               THEN /\ store' = DeleteId(store, s.id)
                    /\ th' = [th EXCEPT ![t] =
                                 [next EXCEPT !.deleted = th[t].deleted \cup {s.id}]]
                    /\ UNCHANGED instances
               ELSE /\ Raise(t, <<"ApiError">>, next)
                    /\ UNCHANGED store
          ELSE /\ th' = [th EXCEPT ![t] =
                            [next EXCEPT !.snaps = Append(th[t].snaps, s)]]
               /\ UNCHANGED <<store, instances>>
    /\ UNCHANGED <<nextId, prev>>

\* snaps = valid; if snaps: return Snapshot(snaps[0])
ApplyCheck(t) ==
    /\ th[t].pc = "invalidate"
    /\ th[t].todo = <<>>
    /\ IF th[t].snaps # <<>>
       THEN Hit(t, th[t].snaps, "apply", th[t])
       ELSE th' = [th EXCEPT ![t].pc = "start"]
    /\ UNCHANGED <<store, nextId, instances, prev>>

\* client.instances.start(...): a running instance with an id of its own.
FreshInstance(insts) == CHOOSE i \in 1..(Cardinality(insts) + 1) : i \notin insts

\* context_manager = self.start(), or start_fn() (resize: boot_snapshot);
\* with context_manager as inst
ApplyStart(t) ==
    /\ th[t].pc = "start"
    /\ IF th[t].base.id \in StoreIds(store)
       THEN LET i == FreshInstance(instances) IN
            /\ instances' = instances \cup {i}
            /\ th' = [th EXCEPT ![t].pc = "func", ![t].inst = i, ![t].got = i,
                                ![t].started = th[t].started + 1]
       ELSE Raise(t, <<"ApiError">>, th[t])
    /\ UNCHANGED <<store, nextId, prev>>

\* The digest apply persists the result under.
MutSnapshotDigestBare(base, key) == IF key # <<>> THEN key ELSE None
SnapshotDigest(base, key) == IF key # <<>> THEN key_to_digest(base, key) ELSE None

\* inst = inst if res is None else res (0 stands for None)
MutSnappedAlwaysProvider(inst, res) == inst
SnappedInstance(inst, res) == IF res = 0 THEN inst ELSE res

\* return Snapshot(inst.snapshot(digest=...)), and the with block, which
\* holds the instance of the provider, is left.
ApplySnapshot(t) ==
    /\ th[t].pc = "snapshot"
    /\ LET new == NewSnapshot(nextId, SnapshotDigest(th[t].base, th[t].key),
                              th[t].op, BaseOf(th[t].base)) IN
       /\ store' = Append(store, new)
       /\ nextId' = nextId + 1
       /\ instances' = StopInstance(instances, th[t].inst)
       /\ th' = [th EXCEPT ![t].pc = "done", ![t].outcome = "ok", ![t].inst = 0,
                           ![t].persisted = new.id, ![t].result = new.id,
                           ![t].snapped = SnappedInstance(th[t].inst, th[t].res)]
    /\ UNCHANGED prev

\* ------------------------------------------------- apply called directly

Call(t, O, I) ==
    /\ CanCall(t)
    /\ \E op \in {o \in O : o.kind = APPLY}, inv \in I, i \in 1..Len(store) :
          Begin(t, op, inv, store[i], op.cmd, "list")
    /\ UNCHANGED <<store, nextId, instances, prev>>

\* res = func(inst): the function returns None, the instance it was given,
\* or an instance it started in place of it.
ExecuteFunc(t) ==
    /\ th[t].pc = "func"
    /\ th[t].op.kind = APPLY
    /\ \E returns \in {"None", "same", "other"} :
          LET i == FreshInstance(instances)
              ran == [th[t] EXCEPT !.pc = "snapshot", !.executed = TRUE] IN
          /\ instances' = IF returns = "other" THEN instances \cup {i} ELSE instances
          /\ th' = [th EXCEPT ![t] =
                       [ran EXCEPT !.res = CASE returns = "None" -> 0
                                           [] returns = "same" -> th[t].inst
                                           [] returns = "other" -> i]]
    /\ UNCHANGED <<store, nextId, prev>>

\* The call is over: its result or its exception is with the caller.
Return(t) ==
    /\ th[t].pc = "done"
    /\ prev' = [prev EXCEPT ![t] = [op |-> th[t].op, base |-> BaseOf(th[t].base),
                                    ok |-> th[t].outcome \in {"hit", "ok"}]]
    /\ th' = [th EXCEPT ![t] = Idle]
    /\ UNCHANGED <<store, nextId, instances>>

\* ------------------------------------------------- ssh_stream, instance_exec

\* What the remote command writes.
StreamChunks == { <<"a", "\n">>, <<"b">> }

\* recv_exit_status() of a channel that was closed without an exit status.
NoExitStatus == 0 - 1

\* The command of the run whose output is streamed.
StreamCommand == <<"c">>

Event(channel, payload, from) == [channel |-> channel, payload |-> payload, from |-> from]

\* The generator runs while its consumer waits in next().
GenRuns == exec.pc = "next"

\* exec_command has been issued and the loop has not been left.
Polling == gen.pc \in {"out", "err", "check", "sleep"}

\* The process writes a chunk to its standard output or standard error.
ProcWrite ==
    /\ Polling
    /\ ~chan.exited /\ ~chan.closed
    /\ chan.todo > 0
    /\ \E c \in StreamChunks, fd \in {"out", "err"} :
          chan' = [chan EXCEPT ![fd] = Append(chan[fd], c), !.todo = chan.todo - 1,
                               !.wrote[fd] = Append(chan.wrote[fd], c)]
    /\ UNCHANGED <<layerVars, auxVars, ui, out, gen, exec>>

\* The process exits and its exit status reaches the channel.
ProcExit ==
    /\ Polling
    /\ ~chan.exited /\ ~chan.closed
    /\ \E n \in ExitCodes \ {NoExitStatus} :
          chan' = [chan EXCEPT !.exited = TRUE, !.code = n]
    /\ UNCHANGED <<layerVars, auxVars, ui, out, gen, exec>>

\* The connection is lost: the channel is closed from outside.
Drop ==
    /\ Polling
    /\ ~chan.closed
    /\ chan' = [chan EXCEPT !.closed = TRUE]
    /\ UNCHANGED <<layerVars, auxVars, ui, out, gen, exec>>

\* chan.exit_status_ready(): an exit status has arrived or the channel is closed.
exit_status_ready(c) == c.exited \/ c.closed

\* chan.recv_exit_status()
recv_exit_status(c) == IF c.exited THEN c.code ELSE NoExitStatus

\* The stream has ended for its consumer: with an exception of ssh_stream,
\* which instance_exec lets through, or by exhaustion, after which the for
\* loop of instance_exec is followed by "raise RuntimeError(...)".
MutEndOfStreamReturns(e, exc) ==
    [e EXCEPT !.pc = "returned", !.code = NoExitStatus]
EndOfStream(e, exc) ==
    IF exc # <<>> THEN [e EXCEPT !.pc = "raised", !.error = exc]
    ELSE IF e.consumer = "instance_exec"
    THEN [e EXCEPT !.pc = "raised", !.error = <<"RuntimeError">>]
    ELSE [e EXCEPT !.pc = "returned"]

\* with instance.ssh() as ssh: for msg in ssh_stream(ssh_client, command)
ExecStart ==
    /\ exec.pc = "idle"
    /\ exec' = [exec EXCEPT !.pc = "next"]
    /\ UNCHANGED <<layerVars, auxVars, ui, out, chan, gen>>

\* transport = ssh.get_transport(); chan = transport.open_session();
\* chan.exec_command(command): they raise when no session can be opened.
GenStart ==
    /\ GenRuns
    /\ gen.pc = "start"
    /\ IF chan.up
       THEN /\ gen' = [gen EXCEPT !.pc = "out"]
            /\ UNCHANGED exec
       ELSE /\ gen' = [gen EXCEPT !.pc = "raised"]
            /\ exec' = EndOfStream(exec, <<"SSHException">>)
    /\ UNCHANGED <<layerVars, auxVars, ui, out, chan>>

\* The channel name ssh_stream yields data of the standard error under.
StderrChannel == "stdin"

\* while chan.recv_ready(): yield ("stdout", chan.recv(chunk_size).decode())
GenRecv ==
    /\ GenRuns
    /\ gen.pc = "out"
    /\ IF chan.out # <<>>
       THEN /\ gen' = [gen EXCEPT !.events =
                           Append(gen.events, Event("stdout", Head(chan.out), "out"))]
            /\ chan' = [chan EXCEPT !.out = Tail(chan.out)]
            /\ exec' = [exec EXCEPT !.pc = "handle"]
       ELSE /\ gen' = [gen EXCEPT !.pc = "err"]
            /\ UNCHANGED <<chan, exec>>
    /\ UNCHANGED <<layerVars, auxVars, ui, out>>

\* while chan.recv_stderr_ready(): yield ("stdin", chan.recv_stderr(...).decode())
GenRecvStderr ==
    /\ GenRuns
    /\ gen.pc = "err"
    /\ IF chan.err # <<>>
       THEN /\ gen' = [gen EXCEPT !.events =
                           Append(gen.events, Event(StderrChannel, Head(chan.err), "err"))]
            /\ chan' = [chan EXCEPT !.err = Tail(chan.err)]
            /\ exec' = [exec EXCEPT !.pc = "handle"]
       ELSE /\ gen' = [gen EXCEPT !.pc = "check"]
            /\ UNCHANGED <<chan, exec>>
    /\ UNCHANGED <<layerVars, auxVars, ui, out>>

\* if chan.exit_status_ready() and not chan.recv_ready()
\*    and not chan.recv_stderr_ready(): break
MutBreakOnExitOnly(c) == exit_status_ready(c)
MutBreakNeedsData(c) == exit_status_ready(c) /\ c.out # <<>> /\ c.err = <<>>
Break(c) == exit_status_ready(c) /\ c.out = <<>> /\ c.err = <<>>

GenCheck ==
    /\ GenRuns
    /\ gen.pc = "check"
    /\ gen' = [gen EXCEPT !.pc = IF Break(chan) THEN "exit" ELSE "sleep"]
    /\ UNCHANGED <<layerVars, auxVars, ui, out, chan, exec>>

\* time.sleep(poll), and the loop starts over.
GenSleep ==
    /\ GenRuns
    /\ gen.pc = "sleep"
    /\ gen' = [gen EXCEPT !.pc = "out"]
    /\ UNCHANGED <<layerVars, auxVars, ui, out, chan, exec>>

\* Where ssh_stream stands after it has yielded the exit code.
MutAfterExitLoops == "out"
AfterExit == "after_exit"

\* yield ("exit_code", chan.recv_exit_status())
GenExit ==
    /\ GenRuns
    /\ gen.pc = "exit"
    /\ gen' = [gen EXCEPT !.pc = AfterExit,
                           !.events = Append(gen.events,
                               Event("exit_code", recv_exit_status(chan), "status"))]
    /\ exec' = [exec EXCEPT !.pc = "handle"]
    /\ UNCHANGED <<layerVars, auxVars, ui, out, chan>>

\* chan.close(), and the generator is exhausted.
GenClose ==
    /\ GenRuns
    /\ gen.pc = "after_exit"
    /\ gen' = [gen EXCEPT !.pc = "stopped"]
    /\ chan' = [chan EXCEPT !.closed = TRUE]
    /\ exec' = EndOfStream(exec, <<>>)
    /\ UNCHANGED <<layerVars, auxVars, ui, out>>

\* The body of the for loop. instance_exec: on_stdout(txt) for "stdout",
\* on_stderr(txt) for "stdin", return code for "exit_code", nothing for any
\* other channel; on_stdout and on_stderr are _out and _err of run's execute.
\* The caller that iterates to the end only takes the event.
ExecHandle ==
    /\ exec.pc = "handle"
    /\ LET msg == gen.events[Len(gen.events)]
           call(cb) == [exec EXCEPT !.pc = "next",
                                    !.calls = Append(exec.calls, <<cb, msg.payload>>)]
       IN  IF exec.consumer # "instance_exec"
           THEN exec' = [exec EXCEPT !.pc = "next"] /\ UNCHANGED out
           ELSE CASE msg.channel = "stdout" ->
                       /\ exec' = call("on_stdout")
                       /\ out' = append_stream_chunk(out, msg.payload, "none",
                                                      out.max_lines)
                  [] msg.channel = "stdin" ->
                       /\ exec' = call("on_stderr")
                       /\ out' = append_stream_chunk(out, msg.payload, "error",
                                                      out.max_lines)
                  [] msg.channel = "exit_code" ->
                       /\ exec' = [exec EXCEPT !.pc = "returned", !.code = msg.payload]
                       /\ UNCHANGED out
                  [] OTHER ->
                       /\ exec' = [exec EXCEPT !.pc = "next"]
                       /\ UNCHANGED out
    /\ UNCHANGED <<layerVars, auxVars, ui, chan, gen>>

\* The end of run's execute: RET and the exception for a nonzero exit code
\* after instance_exec has returned; an exception of instance_exec passes
\* through execute as it is.
ExecuteEnd ==
    /\ exec.consumer = "instance_exec"
    /\ exec.pc \in {"returned", "raised"}
    /\ exec' = [exec EXCEPT
                   !.pc = "done",
                   !.report =
                       IF exec.pc = "raised"
                       THEN [kind |-> "fault", msg |-> exec.error]
                       ELSE IF exec.code # 0
                       THEN [kind |-> "failed",
                             msg |-> FailureMessage(StreamCommand, exec.code,
                                                    Plain(out.text))]
                       ELSE [kind |-> "ok", msg |-> <<>>]]
    /\ UNCHANGED <<layerVars, auxVars, ui, out, chan, gen>>

\* ----------------------------------------------------------------- Renderer

\* What a thread does to the display: renderer.add_panel(panel),
\* renderer.refresh(), a chunk handled by _out or _err of run's execute, and
\* VerificationPanel.update.
UiOps == {"add_panel", "refresh", "_out", "update", "pause"}

\* The operation begins: add_panel and refresh go for the lock; _out and
\* update first change their panel.
UiCall(t) ==
    /\ ui.pc[t] = "idle"
    /\ \E op \in UiOps :
          /\ op = "add_panel" => ui.panels < MaxPanels
          /\ ui' = [ui EXCEPT !.pc[t] =
                       CASE op = "add_panel" -> "lock_add"
                         [] op = "refresh" -> "lock_refresh"
                         [] op = "_out" -> "wipe"
                         [] op = "update" -> "set_table"
                         [] op = "pause" -> "lock_pause",
                       !.how[t] = "none"]
    /\ UNCHANGED <<layerVars, auxVars, out, streamVars>>

\* _append_stream_chunk, step 3 begins: text_obj.plain = ""; spans.clear().
\* The Text of the displayed panel is empty until the lines are appended.
UiWipe(t) ==
    /\ ui.pc[t] = "wipe"
    /\ ui' = [ui EXCEPT !.pc[t] = "fill", !.mid = ui.mid \cup {t}]
    /\ UNCHANGED <<layerVars, auxVars, out, streamVars>>

\* text_obj.append(...) for the marker and the lines; then renderer.refresh().
UiFill(t) ==
    /\ ui.pc[t] = "fill"
    /\ ui' = [ui EXCEPT !.pc[t] = "lock_refresh", !.mid = ui.mid \ {t}]
    /\ UNCHANGED <<layerVars, auxVars, out, streamVars>>

\* VerificationPanel.update: self._panel.renderable = Align.left(table); the
\* border style still shows the state before.
UiSetTable(t) ==
    /\ ui.pc[t] = "set_table"
    /\ ui' = [ui EXCEPT !.pc[t] = "set_border", !.mid = ui.mid \cup {t}]
    /\ UNCHANGED <<layerVars, auxVars, out, streamVars>>

\* self._panel.border_style = ...; then renderer.refresh().
UiSetBorder(t) ==
    /\ ui.pc[t] = "set_border"
    /\ ui' = [ui EXCEPT !.pc[t] = "lock_refresh", !.mid = ui.mid \ {t}]
    /\ UNCHANGED <<layerVars, auxVars, out, streamVars>>

\* with self._lock: in add_panel and in refresh, where the lock lets the
\* thread that holds it in again.
MutUiAcquireReentrant(t) ==
    /\ ui.pc[t] \in {"lock_add", "lock_refresh"}
    /\ ui.lock \in {0, t}
    /\ ui' = [ui EXCEPT !.lock = t,
                         !.pc[t] = IF ui.pc[t] = "lock_add" THEN "append" ELSE "render"]
    /\ UNCHANGED <<layerVars, auxVars, out, streamVars>>

\* with self._lock: in add_panel and in refresh. self._lock is a
\* threading.Lock(): acquiring blocks while any thread holds it, the
\* acquiring thread included.
MutUiAcquireNoLock(t) ==
    /\ ui.pc[t] \in {"lock_add", "lock_refresh"}
    /\ ui' = [ui EXCEPT !.pc[t] = IF ui.pc[t] = "lock_add" THEN "append" ELSE "render"]
    /\ UNCHANGED <<layerVars, auxVars, out, streamVars>>
UiAcquire(t) ==
    /\ ui.pc[t] \in {"lock_add", "lock_refresh"}
    /\ ui.lock = 0
    /\ ui' = [ui EXCEPT !.lock = t,
                         !.pc[t] = IF ui.pc[t] = "lock_add" THEN "append" ELSE "render"]
    /\ UNCHANGED <<layerVars, auxVars, out, streamVars>>

\* self._panels.append(panel), under the lock; self._refresh() follows.
UiAppend(t) ==
    /\ ui.pc[t] = "append"
    /\ ui' = [ui EXCEPT !.panels = ui.panels + 1, !.pc[t] = "render"]
    /\ UNCHANGED <<layerVars, auxVars, out, streamVars>>

\* self._refresh(): self._live.update(Group(*self._panels)) renders every
\* panel as it is now.
UiRender(t) ==
    /\ ui.pc[t] = "render"
    /\ ui' = [ui EXCEPT !.pc[t] = "unlock", !.view = ui.panels,
                         !.partial = ui.partial \/ ui.mid # {}]
    /\ UNCHANGED <<layerVars, auxVars, out, streamVars>>

\* The with block of the lock is left and the call returns: to the body of
\* the pause scope when it was made from there.
UiRelease(t) ==
    /\ ui.pc[t] = "unlock"
    /\ ui' = [ui EXCEPT !.lock = 0,
                         !.pc[t] = IF ui.inner[t] THEN "paused" ELSE "idle",
                         !.inner[t] = FALSE]
    /\ UNCHANGED <<layerVars, auxVars, out, streamVars>>

\* pause(): with self._lock: live_was_running = self._live.is_started;
\* if live_was_running: self._live.stop(); then the body of the scope runs.
PauseEnter(t) ==
    /\ ui.pc[t] = "lock_pause"
    /\ ui.lock = 0
    /\ ui' = [ui EXCEPT !.lock = t, !.pc[t] = "paused", !.was[t] = ui.live,
                         !.live = FALSE, !.entry[t] = <<ui.panels, ui.view>>]
    /\ UNCHANGED <<layerVars, auxVars, out, streamVars>>

\* The body of the scope ends: it returns or it raises.
PauseBody(t) ==
    /\ ui.pc[t] = "paused"
    /\ \E how \in {"returned", "raised"} :
          ui' = [ui EXCEPT !.pc[t] = "finally", !.how[t] = how]
    /\ UNCHANGED <<layerVars, auxVars, out, streamVars>>

\* The body of the scope calls renderer.add_panel(panel) or
\* renderer.refresh(): the call goes for the lock.
PauseNested(t) ==
    /\ ui.pc[t] = "paused"
    /\ \E op \in {"add_panel", "refresh"} :
          ui' = [ui EXCEPT !.pc[t] = IF op = "add_panel" THEN "lock_add"
                                     ELSE "lock_refresh",
                           !.inner[t] = TRUE]
    /\ UNCHANGED <<layerVars, auxVars, out, streamVars>>

\* finally: self._live.start(refresh=True) if live_was_running, else
\* self._refresh_nolock(); the with block of the lock is left next.
MutPauseResumeUnlessRaised(t) ==
    /\ ui.pc[t] = "finally"
    /\ ui' = IF ui.how[t] = "raised"
             THEN [ui EXCEPT !.pc[t] = "unlock"]
             ELSE [ui EXCEPT !.pc[t] = "unlock", !.live = ui.was[t],
                             !.view = ui.panels]
    /\ UNCHANGED <<layerVars, auxVars, out, streamVars>>
PauseResume(t) ==
    /\ ui.pc[t] = "finally"
    /\ ui' = [ui EXCEPT !.pc[t] = "unlock", !.live = ui.was[t],
                         !.view = ui.panels]
    /\ UNCHANGED <<layerVars, auxVars, out, streamVars>>

\* ---------------------------------------------------------- specifications

\* The steps of a call once it is made.
Apply(t) ==
    \/ ApplyList(t)
    \/ ApplyInvalidate(t)
    \/ ApplyCheck(t)
    \/ ApplyStart(t)
    \/ ApplySnapshot(t)
    \/ Return(t)

\* One caller: every call returns before the next one is made.
Next ==
    /\ UNCHANGED ioVars
    /\ \/ Run(1, Ops, Invalidates)
       \/ Copy(1, Ops, Invalidates)
       \/ Do(1, Ops, Invalidates)
       \/ DoList(1)
       \/ ExecuteRun(1)
       \/ ExecuteCopy(1)
       \/ RunAgent(1)
       \/ Apply(1)

Spec == Init /\ [][Next]_vars

\* One caller of every operation that obtains an instance, invalidating or not.
NextLife ==
    /\ UNCHANGED ioVars
    /\ \/ Run(1, LifeOps, {"False", "True"})
       \/ Copy(1, LifeOps, {"False", "True"})
       \/ Do(1, LifeOps, {"False", "True"})
       \/ Resize(1, LifeOps, {"False", "True"})
       \/ DoList(1)
       \/ ExecuteRun(1)
       \/ ExecuteCopy(1)
       \/ RunAgent(1)
       \/ ExecuteResize(1)
       \/ Apply(1)

SpecLife == Init /\ [][NextLife]_vars

\* The root and a snapshot created under the name "s1", which is the digest
\* key_to_digest gives the empty key on the root.
InitNoKey ==
    /\ Still
    /\ store = <<Root, NewSnapshot(2, key_to_digest(Root, <<>>), NoOp, NoBase)>>
    /\ nextId = 3
    /\ instances = {}
    /\ th = [t \in Threads |-> Idle]
    /\ prev = [t \in Threads |-> NoCall]
    /\ Quiet

\* One caller of run with and without a key, invalidating or not.
NextNoKey ==
    /\ UNCHANGED ioVars
    /\ \/ Run(1, NoKeyOps, Invalidates)
       \/ ExecuteRun(1)
       \/ Apply(1)

SpecNoKey == InitNoKey /\ [][NextNoKey]_vars

\* One caller of apply, run and resize, never invalidating.
NextFunc ==
    /\ UNCHANGED ioVars
    /\ \/ Call(1, FuncOps, {"False"})
       \/ Run(1, FuncOps, {"False"})
       \/ Resize(1, FuncOps, {"False"})
       \/ ExecuteFunc(1)
       \/ ExecuteRun(1)
       \/ ExecuteResize(1)
       \/ ApplyList(1)
       \/ ApplyStart(1)
       \/ ApplySnapshot(1)
       \/ Return(1)

SpecFunc == Init /\ [][NextFunc]_vars

\* One caller of do, without and with a verify function, invalidating or not.
NextDo ==
    /\ UNCHANGED ioVars
    /\ \/ Do(1, DoOps, Invalidates)
       \/ DoList(1)
       \/ RunAgent(1)
       \/ Apply(1)

SpecDo == Init /\ [][NextDo]_vars

\* One caller whose calls differ in one part of the descriptor, none invalidating.
NextKeys ==
    /\ UNCHANGED ioVars
    /\ \/ Run(1, KeyOps, {"False"})
       \/ Copy(1, KeyOps, {"False"})
       \/ Do(1, KeyOps, {"False"})
       \/ DoList(1)
       \/ ExecuteRun(1)
       \/ ExecuteCopy(1)
       \/ RunAgent(1)
       \/ ApplyList(1)
       \/ ApplyStart(1)
       \/ ApplySnapshot(1)
       \/ Return(1)

SpecKeys == Init /\ [][NextKeys]_vars

\* One caller of operations of every kind whose keys read the same, none
\* invalidating.
NextCross ==
    /\ UNCHANGED ioVars
    /\ \/ Run(1, CrossOps, {"False"})
       \/ Copy(1, CrossOps, {"False"})
       \/ Resize(1, CrossOps, {"False"})
       \/ ExecuteRun(1)
       \/ ExecuteCopy(1)
       \/ ExecuteResize(1)
       \/ ApplyList(1)
       \/ ApplyStart(1)
       \/ ApplySnapshot(1)
       \/ Return(1)

SpecCross == Init /\ [][NextCross]_vars

\* Two callers of the same operation on the same store, interleaved at every
\* remote call.
NextConc ==
    /\ UNCHANGED ioVars
    /\ \E t \in Threads :
          \/ Run(t, ConcOps, {"False", "True"})
          \/ ExecuteRun(t)
          \/ Apply(t)

SpecConc == Init /\ [][NextConc]_vars

\* One copy_ of a file onto a fresh base whose files are any of RemoteFs.
InitCopy ==
    /\ Still
    /\ store = <<Root>>
    /\ nextId = MaxSnapshots
    /\ instances = {}
    /\ th = [t \in Threads |-> Idle]
    /\ prev = [t \in Threads |-> NoCall]
    /\ Quiet

NextCopy ==
    /\ UNCHANGED ioVars
    /\ \/ Copy(1, CopyOps, {"False"})
       \/ ExecuteCopy(1)
       \/ ApplyList(1)
       \/ ApplyStart(1)
       \/ ApplySnapshot(1)
       \/ Return(1)

SpecCopy == InitCopy /\ [][NextCopy]_vars

\* Calls of _append_stream_chunk on one buffer with a fixed max_lines.
InitBuf ==
    /\ Still
    /\ store = <<Root>>
    /\ nextId = MaxSnapshots
    /\ instances = {}
    /\ th = [t \in Threads |-> Idle]
    /\ prev = [t \in Threads |-> NoCall]
    /\ \E max_lines \in 1..MaxLinesBound : out = NewOut(max_lines)
    /\ chan = NewChan(FALSE)
    /\ gen = NewGen
    /\ exec = NewExec("none")
    /\ ui = NewUi

Feed ==
    /\ Len(out.chunks) < MaxFeeds
    /\ \E f \in Feeds : out' = append_stream_chunk(out, f[1], f[2], out.max_lines)
    /\ UNCHANGED <<layerVars, auxVars, ui, streamVars>>

NextBuf == Feed

SpecBuf == InitBuf /\ [][NextBuf]_vars

\* One remote command streamed to its consumer.
InitStream ==
    /\ Still
    /\ store = <<Root>>
    /\ nextId = MaxSnapshots
    /\ instances = {}
    /\ th = [t \in Threads |-> Idle]
    /\ prev = [t \in Threads |-> NoCall]
    /\ out = NewOut(MaxLinesBound)
    /\ \E up \in BOOLEAN : chan = NewChan(up)
    /\ gen = NewGen
    /\ \E consumer \in {"instance_exec", "drain"} : exec = NewExec(consumer)
    /\ ui = NewUi

\* The steps of the generator and of its consumer, which share a thread.
StreamStep ==
    \/ ExecStart
    \/ GenStart
    \/ GenRecv
    \/ GenRecvStderr
    \/ GenCheck
    \/ GenSleep
    \/ GenExit
    \/ GenClose
    \/ ExecHandle
    \/ ExecuteEnd

NextStream ==
    \/ ProcWrite
    \/ ProcExit
    \/ Drop
    \/ StreamStep

SpecStream == InitStream /\ [][NextStream]_vars

\* The thread that runs the generator and its consumer keeps running: nothing
\* in the loop blocks, time.sleep(poll) returns.
SpecStreamLive == SpecStream /\ WF_vars(StreamStep)

\* Two threads that display to the one renderer.
InitUi ==
    /\ Still
    /\ store = <<Root>>
    /\ nextId = MaxSnapshots
    /\ instances = {}
    /\ th = [t \in Threads |-> Idle]
    /\ prev = [t \in Threads |-> NoCall]
    /\ out = NewOut(0)
    /\ chan = NewChan(FALSE)
    /\ gen = NewGen
    /\ exec = NewExec("none")
    /\ \E live \in BOOLEAN : ui = [NewUi EXCEPT !.live = live]

NextUi ==
    \E t \in Threads :
        \/ UiCall(t)
        \/ UiWipe(t)
        \/ UiFill(t)
        \/ UiSetTable(t)
        \/ UiSetBorder(t)
        \/ UiAcquire(t)
        \/ UiAppend(t)
        \/ UiRender(t)
        \/ UiRelease(t)
        \/ PauseEnter(t)
        \/ PauseBody(t)
        \/ PauseResume(t)

SpecUi == InitUi /\ [][NextUi]_vars

\* The same threads, where the body of a pause scope may call add_panel or
\* refresh.
NextNested ==
    \/ NextUi
    \/ \E t \in Threads : PauseNested(t)

SpecNested == InitUi /\ [][NextNested]_vars

\* The layer, the display and the stream at rest.
Parked ==
    /\ store = <<Root>>
    /\ nextId = MaxSnapshots
    /\ instances = {}
    /\ th = [t \in Threads |-> Idle]
    /\ prev = [t \in Threads |-> NoCall]
    /\ Quiet

\* One call of the verifier of a do.
InitVerify ==
    /\ Parked
    /\ \E verify_funcs \in VerifyLists, current_agent \in BOOLEAN :
          vr = NewVerifier(verify_funcs, current_agent)
    /\ crash = NewCrash("some_key" :> <<"some_value">>)
    /\ browser = NewBrowser

NextVerify ==
    \/ VerifierCall
    \/ VerifierCheck
    \/ VerifierReturn

SpecVerify == InitVerify /\ [][NextVerify]_vars

\* The kernels of one sandbox crash one after the other.
InitCrash ==
    /\ Parked
    /\ vr = NewVerifier(<<>>, FALSE)
    /\ \E metadata \in Metadatas : crash = NewCrash(metadata)
    /\ browser = NewBrowser

NextCrash ==
    \/ KernelCrash
    \/ CrashGet
    \/ CrashSet
    \/ CrashRaise

SpecCrash == InitCrash /\ [][NextCrash]_vars

\* Browser sessions are created and closed.
InitBrowser ==
    /\ Parked
    /\ vr = NewVerifier(<<>>, FALSE)
    /\ crash = NewCrash("some_key" :> <<"some_value">>)
    /\ browser = NewBrowser

NextBrowser ==
    \E s \in Sessions :
        \/ BrowserCreate(s)
        \/ BrowserVerifyChrome(s)
        \/ BrowserWaitChrome(s)
        \/ BrowserWaitProxy(s)
        \/ BrowserExpose(s)
        \/ InstanceStops(s)
        \/ BrowserCloseProxy(s)
        \/ BrowserCloseSocat(s)
        \/ BrowserCloseHide(s)

SpecBrowser == InitBrowser /\ [][NextBrowser]_vars

\* ------------------------------------------------------------------ claims

InCall(t) == th[t].pc # "idle"

\* The digest apply looks up and persists under for the call of thread t.
CacheDigest(t) == key_to_digest(th[t].base, th[t].key)

\* The call of t repeats the call t completed last, which succeeded.
RepeatsLastCall(t) ==
    /\ InCall(t)
    /\ prev[t].ok
    /\ prev[t].op = th[t].op
    /\ prev[t].base = BaseOf(th[t].base)

Range(f) == {f[i] : i \in DOMAIN f}

\* C1: when a keyed operation is called a second time on the same base right
\* after a successful first call (no invalidation asked), the second call
\* starts no instance, opens no session, executes nothing and persists
\* nothing: it can only end as a cache hit.
C1_SecondCallIsPureHit ==
    \A t \in Threads :
        (RepeatsLastCall(t) /\ th[t].key # <<>> /\ th[t].inv = "False")
        => /\ th[t].started = 0
           /\ ~th[t].executed
           /\ ~th[t].ssh
           /\ th[t].persisted = <<>>
           /\ instances = {}
           /\ nextId = th[t].id0
           /\ th[t].outcome \in {"none", "hit"}

\* A second do(...) ended as a hit after the first one succeeded.
C1_Witness ==
    /\ RepeatsLastCall(1)
    /\ th[1].op.kind = DO
    /\ th[1].inv = "False"
    /\ th[1].pc = "done"
    /\ th[1].outcome = "hit"

\* C2: two overlapping calls of the same keyed operation on the same base,
\* neither invalidating, start at most one instance between them and persist
\* at most one snapshot.
C2_AtMostOnce ==
    \A t1, t2 \in Threads :
        (/\ t1 # t2
         /\ InCall(t1) /\ InCall(t2)
         /\ th[t1].op = th[t2].op
         /\ th[t1].base = th[t2].base
         /\ th[t1].inv = "False" /\ th[t2].inv = "False")
        => /\ th[t1].started + th[t2].started <= 1
           /\ ~(th[t1].persisted # <<>> /\ th[t2].persisted # <<>>)

\* C3: in run(cmd, invalidate=True) every snapshot listed under the digest of
\* (base, cmd) is deleted and none is stored under it when the instance is
\* started and the command executed; when the call has returned a snapshot
\* the store holds exactly one record with that digest.
C3_InvalidateThenOne ==
    \A t \in Threads :
        (th[t].op.kind = RUN /\ th[t].inv = "True")
        => /\ th[t].pc \in {"start", "func", "snapshot"}
              => /\ ListByDigest(store, CacheDigest(t)) = <<>>
                 /\ th[t].deleted = Range(th[t].listed)
           /\ th[t].executed => th[t].deleted = Range(th[t].listed)
           /\ (th[t].pc = "done" /\ th[t].outcome \in {"hit", "ok"})
              => /\ Len(ListByDigest(store, CacheDigest(t))) = 1
                 /\ th[t].executed

\* run(cmd, invalidate=True) returned after deleting two records of its digest.
C3_Witness ==
    /\ th[1].op.kind = RUN
    /\ th[1].inv = "True"
    /\ th[1].pc = "done"
    /\ th[1].outcome = "ok"
    /\ Cardinality(th[1].deleted) = 2

\* C4: a run whose command exits with n # 0 ends by raising; the message holds
\* str(n) and the command text, and the call has persisted no snapshot.
C4_NonzeroExitRaises ==
    \A t \in Threads :
        (th[t].op.kind = RUN /\ th[t].executed /\ th[t].exit # 0)
        => /\ th[t].pc = "done"
           /\ th[t].outcome = "raised"
           /\ Contains(th[t].error, Str(th[t].exit))
           /\ Contains(th[t].error, th[t].op.cmd)
           /\ th[t].persisted = <<>>
           /\ nextId = th[t].id0
           /\ \A i \in 1..Len(store) : store[i] \in Range(th[t].store0)

\* A run raised for exit code 17.
C4_Witness ==
    /\ th[1].op.kind = RUN
    /\ th[1].exit = 17
    /\ th[1].outcome = "raised"

\* The records of a sequence whose ids are not in a set, in order.
Without(st, ids) == SelectSeq(st, LAMBDA s : s.id \notin ids)

ApplyHit(t) ==
    th[t].pc = "done" /\ th[t].outcome = "hit" /\ th[t].hitBy = "apply"

\* C5 as stated: on a cache hit apply returns the first matching record in
\* store order and has deleted, created and started nothing.
C5_HitFirstUnchanged ==
    \A t \in Threads :
        ApplyHit(t)
        => /\ th[t].result = th[t].listed[1]
           /\ store = th[t].store0
           /\ th[t].deleted = {}
           /\ th[t].started = 0
           /\ instances = {}

\* C5 amended: on a cache hit apply returns the first matching record in store
\* order that invalidation did not delete (the first matching record when
\* invalidate is falsy), has started no instance and created no snapshot, and
\* the store is the one before the call less the matching records the
\* invalidation predicate selected (none when invalidate is falsy).
C5_HitFirstKept ==
    \A t \in Threads :
        ApplyHit(t)
        => LET kept == SelectSeq(th[t].listed, LAMBDA id : id \notin th[t].deleted) IN
           /\ kept # <<>>
           /\ th[t].result = kept[1]
           /\ Range(th[t].listed) =
                  {s.id : s \in Range(ListByDigest(th[t].store0, CacheDigest(t)))}
           /\ th[t].deleted \subseteq Range(th[t].listed)
           /\ th[t].inv = "False" => th[t].deleted = {}
           /\ store = Without(th[t].store0, th[t].deleted)
           /\ th[t].started = 0
           /\ ~th[t].executed
           /\ instances = {}
           /\ nextId = th[t].id0

\* A hit on the second of two matching records, the first having been deleted.
C5_Witness ==
    /\ ApplyHit(1)
    /\ Len(th[1].listed) = 2
    /\ th[1].deleted = {th[1].listed[1]}
    /\ th[1].result = th[1].listed[2]

\* The snapshots of the store that a run, copy_ or do call persisted.
Layers == {s \in Range(store) : s.by # NoOp}

\* C6: a call and a stored layer have the same cache digest if and only if
\* they have the same base (digest and id) and the same descriptor.
C6_SameDigestIffSameOperation ==
    \A t \in Threads : \A s \in Layers :
        InCall(t)
        => ((CacheDigest(t) = s.digest)
            <=> (BaseOf(th[t].base) = s.base /\ th[t].op = s.by))

\* The call of t differs from the one that stored s in exactly one of the base
\* digest, the command text and the list of verify function names.
OneChange(t, s) ==
    /\ th[t].op.kind = s.by.kind
    /\ th[t].base.id = s.base.id
    /\ \/ th[t].base.digest # s.base.digest /\ th[t].op = s.by
       \/ /\ th[t].base.digest = s.base.digest
          /\ th[t].op.kind = RUN
          /\ th[t].op.cmd # s.by.cmd
       \/ /\ th[t].base.digest = s.base.digest
          /\ th[t].op.kind = DO
          /\ th[t].op.instr = s.by.instr
          /\ th[t].op.names # s.by.names

\* C7: a call that differs from the call that stored a layer in exactly one of
\* base digest, command text and verify function names has another cache
\* digest and is never answered with that layer.
C7_OneChangeMisses ==
    \A t \in Threads : \A s \in Layers :
        (InCall(t) /\ OneChange(t, s))
        => /\ CacheDigest(t) # s.digest
           /\ th[t].outcome = "hit" => th[t].result # s.id

\* The descriptor of an operation: the command, the src/dest pair as copy_
\* writes it, the instructions followed by the verify function names.
Descriptor(op) ==
    CASE op.kind = RUN -> op.cmd
      [] op.kind = COPY -> CopyKey(op)
      [] op.kind = DO -> op.instr \o Join(op.names, <<",">>)

\* C8: every layer carries the digest base_digest || base_id || descriptor.
C8_PersistedDigestComposition ==
    \A s \in Layers :
        s.digest = (IF s.base.digest = None THEN <<>> ELSE s.base.digest)
                       \o s.base.id \o Descriptor(s.by)

\* C9: a copy_ whose local source does not exist fails before any remote
\* work: no instance was started and no SSH or SFTP session opened.
C9_MissingSourceFailsFirst ==
    \A t \in Threads :
        (th[t].op.kind = COPY /\ th[t].srcKind = "missing")
        => /\ th[t].outcome = "raised"
           /\ th[t].started = 0
           /\ ~th[t].ssh
           /\ ~th[t].sftp

\* Where the claim puts the file of a copy_: under dest when dest ends with a
\* separator or was a directory before the copy, at dest itself otherwise.
ExpectedTarget(t) ==
    LET n == Resolve(th[t].op.dest) IN
    IF EndsWithSlash(th[t].op.dest) \/ n \in th[t].fs0.dirs
    THEN Child(n, PathName(th[t].op.src))
    ELSE n

\* The copy_ of t has transferred a local file.
CopiedFile(t) ==
    th[t].op.kind = COPY /\ th[t].srcKind = "file" /\ th[t].executed

\* C10: a copy_ of a local file named f puts it at dest/f when dest ends with
\* a path separator or exists remotely as a directory, and at dest itself
\* otherwise; when the transfer has succeeded the file is there.
C10_FileLandsAtDest ==
    \A t \in Threads :
        CopiedFile(t)
        => /\ th[t].target # NoNode => th[t].target = ExpectedTarget(t)
           /\ th[t].outcome # "raised"
              => /\ th[t].target = ExpectedTarget(t)
                 /\ ExpectedTarget(t) \in th[t].fs.files

\* A file copied to a dest without trailing separator that was a directory.
C10_Witness ==
    /\ CopiedFile(1)
    /\ th[1].pc = "snapshot"
    /\ ~EndsWithSlash(th[1].op.dest)
    /\ Resolve(th[1].op.dest) \in th[1].fs0.dirs
    /\ th[1].target = Child(Resolve(th[1].op.dest), <<"f">>)
    /\ th[1].target \in th[1].fs.files

\* The copy_ of t has transferred a local directory.
CopiedTree(t) ==
    th[t].op.kind = COPY /\ th[t].srcKind = "dir" /\ th[t].executed

\* Where the copied tree is to be rooted: at dest/d when dest ends with a
\* separator or was a directory before the copy, at dest itself otherwise.
ExpectedRoot(t) == ExpectedTarget(t)

\* The remote place of the file of the local tree under a root.
TreeFile(root, tree) == Node(root.abs, root.parts \o tree)

\* C11: a copy_ of a local directory d fails and persists nothing when dest
\* exists and is not a directory; otherwise it puts files only under dest/d
\* (dest ending with a separator or an existing directory) or under dest
\* (dest missing), and when it succeeds that root is a directory holding the
\* tree's file.
C11_TreeRootedAtDest ==
    \A t \in Threads :
        CopiedTree(t)
        => IF Resolve(th[t].op.dest) \in th[t].fs0.files
           THEN /\ th[t].pc = "done"
                /\ th[t].outcome = "raised"
                /\ th[t].persisted = <<>>
           ELSE /\ th[t].puts \subseteq {TreeFile(ExpectedRoot(t), th[t].tree)}
                /\ th[t].outcome # "raised"
                   => /\ ExpectedRoot(t) \in th[t].fs.dirs
                      /\ th[t].tree # <<>>
                         => TreeFile(ExpectedRoot(t), th[t].tree) \in th[t].fs.files

\* The instances the calls in progress hold.
Held == {th[t].inst : t \in Threads} \ {0}

\* C12: the only running instances are those held by calls of run, copy_, do
\* and resize that are between obtaining the instance and leaving the with
\* block: once a call has returned or raised it holds none and none it
\* started is running, and a call that returned a new snapshot persisted it.
C12_NoInstanceOutlivesCall ==
    /\ instances = Held
    /\ \A t \in Threads :
          /\ th[t].inst # 0 => th[t].pc \in {"func", "snapshot"}
          /\ th[t].pc \in {"idle", "done"} => th[t].inst = 0
          /\ (th[t].pc = "done" /\ th[t].outcome = "ok")
             => /\ th[t].started = 1
                /\ \E i \in 1..Len(store) : store[i].id = th[t].persisted

\* A command failed on a started instance and the call has raised.
C12_Witness ==
    /\ th[1].pc = "done"
    /\ th[1].outcome = "raised"
    /\ th[1].started = 1
    /\ th[1].executed
    /\ instances = {}

\* The operation function of the call of t was invoked and raised.
FuncRaised(t) ==
    th[t].pc = "done" /\ th[t].outcome = "raised" /\ th[t].started = 1

\* C13: when the operation function raises in a call whose invalidate is
\* falsy, the call ends with that exception and the store is the store the
\* call began with: nothing created, nothing deleted, no record changed.
C13_FuncRaisesStoreUnchanged ==
    \A t \in Threads :
        (FuncRaised(t) /\ th[t].inv = "False")
        => /\ th[t].error # <<>>
           /\ store = th[t].store0
           /\ nextId = th[t].id0
           /\ th[t].persisted = <<>>
           /\ th[t].deleted = {}

\* The agent of a do without invalidation ended unsuccessfully, over a store
\* that holds layers.
C13_Witness ==
    /\ FuncRaised(1)
    /\ th[1].op.kind = DO
    /\ th[1].inv = "False"
    /\ Len(store) > 1

\* The lines fed to the buffer so far, in arrival order.
RECURSIVE LinesOf(_)
LinesOf(chunks) ==
    IF chunks = <<>> THEN <<>>
    ELSE SplitLines(chunks[1]) \o LinesOf(Tail(chunks))

Min(a, b) == IF a < b THEN a ELSE b

\* The last k elements of a sequence.
LastN(q, k) == SubSeq(q, Len(q) - k + 1, Len(q))

\* Every chunk fed so far was one whole line.
SingleLineChunks ==
    \A i \in 1..Len(out.chunks) :
        /\ Len(SplitLines(out.chunks[i])) = 1
        /\ out.chunks[i][Len(out.chunks[i])] = "\n"

\* The lines the rendered text shows.
Rendered == SplitLines(Plain(out.text))

\* C14: after n > max_lines single-line chunks the rendered text shows
\* exactly max_lines lines and the first of them is the truncation marker.
C14_RenderedMaxLines ==
    (SingleLineChunks /\ Len(out.chunks) > out.max_lines)
    => /\ Len(Rendered) = out.max_lines
       /\ Rendered[1] = ELLIPSIS

\* C15: after every call the deque holds exactly the last min(n, max_lines)
\* of the n lines fed so far, in arrival order, so never more than max_lines.
C15_BufferIsLastLines ==
    LET fed == LinesOf(out.chunks) IN
    /\ Len(out.buf) = Min(Len(fed), out.max_lines)
    /\ [i \in 1..Len(out.buf) |-> out.buf[i][1]] = LastN(fed, Len(out.buf))
    /\ Len(out.buf) <= out.max_lines

\* More lines were fed than the buffer keeps, some of them two in one chunk.
C15_Witness ==
    /\ out.max_lines = 2
    /\ Len(out.chunks) >= 2
    /\ Len(LinesOf(out.chunks)) > Len(out.chunks)
    /\ Len(LinesOf(out.chunks)) > out.max_lines + 1
    /\ Len(out.buf) = 2

\* The positions of the exit_code events among the events yielded.
ExitEvents == {i \in 1..Len(gen.events) : gen.events[i].channel = "exit_code"}

\* The generator ran to its end.
StreamComplete == gen.pc = "stopped"

\* C16: the stream never yields more than one exit_code event and never an
\* event after it, and a complete run has yielded exactly one.
C16_OneExitCodeLast ==
    /\ Cardinality(ExitEvents) <= 1
    /\ \A i \in ExitEvents : i = Len(gen.events)
    /\ StreamComplete => Cardinality(ExitEvents) = 1

\* A complete run that yielded output of both kinds before the exit code.
C16_Witness ==
    /\ StreamComplete
    /\ Len(gen.events) = 3
    /\ gen.events[3].channel = "exit_code"
    /\ \E i, j \in 1..2 : gen.events[i].from = "out" /\ gen.events[j].from = "err"

\* The polling loop of ssh_stream has been left.
LoopLeft == gen.pc \in {"exit", "after_exit", "stopped"}

\* The exit_code event has been yielded and the consumer has returned.
StreamReturned == ExitEvents # {} /\ exec.pc \in {"returned", "done"}

\* C17: once the remote process has exited, the pending output is drained,
\* the exit_code event is yielded and instance_exec returns; and the polling
\* loop is left only when the process has exited (or the channel was closed
\* under it).
C17_ExitLeadsToReturn ==
    /\ chan.exited ~> StreamReturned
    /\ [](LoopLeft => (chan.exited \/ chan.closed))

\* instance_exec returned the exit code of a process that wrote two chunks.
C17_Witness ==
    /\ exec.consumer = "instance_exec"
    /\ StreamReturned
    /\ chan.exited
    /\ exec.code = chan.code
    /\ Len(exec.calls) = 2

\* The stream has ended, by an exception or by exhaustion, and has yielded no
\* exit_code event.
EndedWithoutExitCode == gen.pc \in {"raised", "stopped"} /\ ExitEvents = {}

ExitEquals == <<"e", "x", "i", "t", "=">>

C19_ChannelsNamed ==
    \A i \in 1..Len(gen.events) :
        /\ gen.events[i].channel \in {"stdout", "stderr", "exit_code"}
        /\ gen.events[i].from = "err" => gen.events[i].channel = "stderr"
        /\ gen.events[i].from = "out" => gen.events[i].channel = "stdout"

\* C20: a thread changes a displayed panel only while it holds the renderer's
\* lock, and no refresh has rendered a panel that was between two steps of a
\* change.
C20_MutationsUnderLock ==
    /\ \A t \in ui.mid : ui.lock = t
    /\ ~ui.partial

\* Thread t is inside a pause scope: the body runs or has just ended.
InPause(t) == ui.pc[t] \in {"paused", "finally"}

\* Thread t has left the body of a pause scope and run its finally block.
PauseLeft(t) == ui.pc[t] = "unlock" /\ ui.how[t] # "none"

\* C21: while a pause scope is active the live view is stopped and the lock
\* is held by the pausing thread; when the scope has been left, by return or
\* by exception, the live view is running again if it was running on entry
\* and shows the current panels, and the lock is released right after: a
\* thread that is not in add_panel, refresh or pause does not hold it.
C21_PauseResumes ==
    \A t \in Threads :
        /\ InPause(t) => ~ui.live /\ ui.lock = t
        /\ PauseLeft(t) => /\ ui.live = ui.was[t]
                           /\ ui.view = ui.panels
                           /\ ui.lock = t
        /\ ui.pc[t] = "idle" => ui.lock # t

\* A pause scope entered while the live view was running was left by an
\* exception.
C21_Witness ==
    /\ PauseLeft(1)
    /\ ui.how[1] = "raised"
    /\ ui.was[1]
    /\ ui.live
    /\ ui.panels > 0

\* C22: while a thread is inside a pause scope no other thread is inside
\* add_panel or refresh, and the panel list and the live view are as they
\* were when the scope was entered.
C22_PauseExcludes ==
    \A t \in Threads :
        InPause(t)
        => /\ \A u \in Threads \ {t} : ui.pc[u] \notin {"append", "render", "unlock"}
           /\ <<ui.panels, ui.view>> = ui.entry[t]

\* One thread is inside a pause scope while the other waits for the lock in
\* add_panel.
C22_Witness ==
    /\ ui.pc[1] = "paused"
    /\ ui.pc[2] = "lock_add"
    /\ ui.panels > 0

\* ------------------------------------------------------------ the verifier

\* The check of a verify function fails: it returns False, or it raises.
CheckFails(func) == func.does \in {"false", "raises"}

NamesOf(funcs) == [k \in DOMAIN funcs |-> funcs[k].name]

\* C23: the verifier reports success if and only if every check passes,
\* where a check that returns false or raises counts as failed.
C23_SuccessIffAllPass ==
    vr.pc = "done" =>
        (vr.result = "True"
            <=> \A k \in DOMAIN vr.verify_funcs : ~CheckFails(vr.verify_funcs[k]))

\* C24: whenever the verifier is called with a non-empty list of checks,
\* every check of the list is run exactly once, in list order, whatever the
\* outcome of the earlier checks.
C24_EveryCheckRunOnce ==
    (vr.pc = "done" /\ vr.verify_funcs # <<>>) => vr.ran = NamesOf(vr.verify_funcs)

\* The checks the loop of the verifier has been through.
RunSoFar == SubSeq(vr.verify_funcs, 1, vr.i - 1)

\* The entries of the checks of funcs that raise, in the order of funcs.
RECURSIVE ErrorsOf(_)
ErrorsOf(funcs) ==
    IF funcs = <<>> THEN <<>>
    ELSE (IF Head(funcs).does = "raises"
          THEN <<ErrorEntry(Head(funcs).name, ErrorText)>>
          ELSE <<>>) \o ErrorsOf(Tail(funcs))

\* The check at k is the last of funcs that bears its name.
LastNamed(funcs, k) ==
    \A j \in DOMAIN funcs : funcs[j].name = funcs[k].name => j <= k

\* C25: an error raised by a check never leaves the verifier: the check is
\* recorded as failed with the error text, one entry with its name and its
\* message is added to the error list, in the order of the checks, and the
\* checks after it still run.
C25_RaisedErrorIsRecorded ==
    /\ vr.pc # "raised"
    /\ (vr.pc = "loop" \/ vr.stored) =>
          /\ vr.ran = NamesOf(RunSoFar)
          /\ vr.verification_errors = ErrorsOf(RunSoFar)
          /\ vr.all_ok <=> \A k \in DOMAIN RunSoFar : RunSoFar[k].does # "raises"
          /\ \A k \in DOMAIN RunSoFar :
                (RunSoFar[k].does = "raises" /\ LastNamed(RunSoFar, k)) =>
                    vr.statuses[RunSoFar[k].name] = StatusFailed(ErrorText)
    /\ vr.stored =>
          /\ vr.ran = NamesOf(vr.verify_funcs)
          /\ vr.last_verification_errors = ErrorsOf(vr.verify_funcs)
          /\ vr.result = "False"
                <=> \E k \in DOMAIN vr.verify_funcs : vr.verify_funcs[k].does = "raises"

\* The first of three checks raised, the second passed, the third raised,
\* and the verifier has returned.
C25_Witness ==
    /\ vr.pc = "done"
    /\ vr.stored
    /\ Len(vr.verify_funcs) = 3
    /\ vr.verify_funcs[1].does = "raises"
    /\ vr.verify_funcs[2].does = "true"
    /\ vr.verify_funcs[3].does = "raises"
    /\ Len(vr.verification_errors) = 2
    /\ vr.result = "False"

\* ------------------------------------------------------- do and its agent

\* The store holds what it held when the call of t began, less what the call
\* deleted, and has created no snapshot since.
NothingPersisted(t) ==
    /\ th[t].persisted = <<>>
    /\ nextId = th[t].id0
    /\ \A i \in 1..Len(store) :
          \E j \in 1..Len(th[t].store0) : store[i] = th[t].store0[j]

\* C26: when the agent loop of do ends without reporting successful
\* completion, do raises and no snapshot is persisted for that call; a
\* verification failure by itself never makes do raise.
C26_AgentFailureRaises ==
    \A t \in Threads :
        (th[t].op.kind = DO /\ th[t].executed) =>
            /\ th[t].running =>
                  /\ th[t].pc = "done"
                  /\ th[t].outcome = "raised"
                  /\ NothingPersisted(t)
            /\ ~th[t].running => th[t].outcome # "raised"

\* A do whose agent ended still running has raised, and the next do, whose
\* verifier answered False to an agent that completed, returned a snapshot.
C26_Witness ==
    /\ prev[1].op.kind = DO
    /\ ~prev[1].ok
    /\ th[1].op.kind = DO
    /\ th[1].executed
    /\ th[1].verified = "failed"
    /\ th[1].outcome = "ok"
    /\ th[1].persisted # <<>>

\* ------------------------------------------- invalidation by a predicate

\* The call of t has been through the invalidation loop of apply.
Invalidated(t) ==
    /\ th[t].key # <<>>
    /\ th[t].pc \in {"start", "func", "snapshot", "done"}
    /\ ~(th[t].pc = "done" /\ th[t].hitBy = "do")

\* C27: with a predicate as invalidate, apply deletes exactly the matching
\* snapshots for which the predicate is true and keeps the others in store
\* order; if any are kept, the first kept one is returned as a cache hit
\* without executing the operation, otherwise the operation executes.
C27_PredicateInvalidation ==
    \A t \in Threads :
        (th[t].inv = "Fn" /\ Invalidated(t)) =>
            LET kept == SelectSeq(th[t].listed, LAMBDA id : id \notin th[t].said) IN
            /\ Range(th[t].listed) =
                   {s.id : s \in Range(ListByDigest(th[t].store0, CacheDigest(t)))}
            /\ th[t].said \subseteq Range(th[t].listed)
            /\ th[t].deleted = th[t].said
            /\ Without(th[t].store0, th[t].said)
                   = SubSeq(store, 1, Len(th[t].store0) - Cardinality(th[t].said))
            /\ [i \in 1..Len(th[t].snaps) |-> th[t].snaps[i].id] = kept
            /\ kept # <<>> =>
                  /\ ApplyHit(t)
                  /\ th[t].result = kept[1]
                  /\ ~th[t].executed
                  /\ th[t].started = 0
                  /\ store = Without(th[t].store0, th[t].said)
            /\ kept = <<>> =>
                  /\ th[t].outcome # "hit"
                  /\ th[t].pc \in {"func", "snapshot", "done"} => th[t].started = 1
                  /\ th[t].pc \in {"snapshot", "done"} =>
                        (th[t].executed \/ th[t].outcome = "raised")

\* The predicate answered True for the second of two matching snapshots
\* only: it is gone from the store, and the first is returned as a hit.
C27_Witness ==
    /\ th[1].inv = "Fn"
    /\ ApplyHit(1)
    /\ Len(th[1].listed) = 2
    /\ th[1].said = {th[1].listed[2]}
    /\ th[1].result = th[1].listed[1]
    /\ th[1].listed[2] \notin StoreIds(store)
    /\ th[1].listed[1] \in StoreIds(store)

\* ----------------------------------------------------------- crash faults

\* Some stretch of the message, put in lower case, is the word.
HasWord(message, word) ==
    \E i \in 1..(Len(message) + 1) : \E j \in (i - 1)..Len(message) :
        Lower(SubSeq(message, i, j)) = word

\* The records the crashes of this run added to the history.
Added ==
    SubSeq(History(crash.metadata), Len(History(crash.metadata0)) + 1,
           Len(History(crash.metadata)))

\* C28: the crash type of a failure message is OOM_KILL if the message
\* contains "memory" or "oom" in any letter case, otherwise TIMEOUT if it
\* contains "timeout" in any letter case, otherwise KERNEL_DIED; every
\* message gets exactly one of the three types.
C28_CrashTypeOfMessage ==
    \A k \in DOMAIN Added :
        LET r == Added[k]
            oom == HasWord(r.message, <<"m", "e", "m", "o", "r", "y">>)
                   \/ HasWord(r.message, <<"o", "o", "m">>)
            timeout == HasWord(r.message, <<"t", "i", "m", "e", "o", "u", "t">>) IN
        /\ r.crash_type \in {OOM_KILL, TIMEOUT, KERNEL_DIED}
        /\ r.crash_type = OOM_KILL <=> oom
        /\ r.crash_type = TIMEOUT <=> (~oom /\ timeout)
        /\ r.crash_type = KERNEL_DIED <=> (~oom /\ ~timeout)
        /\ r.message = MsgOutOfMemory => r.crash_type = OOM_KILL
        /\ r.message = MsgTimeout => r.crash_type = TIMEOUT
        /\ r.message = MsgDied => r.crash_type = KERNEL_DIED

\* Three crashes are recorded: one whose message has "Memory" and "TIMEOUT",
\* one with "OOM" in capitals, one with "Timed out".
C28_Witness ==
    /\ Len(Added) = 3
    /\ Added[1].message = MsgBothWords /\ Added[1].crash_type = OOM_KILL
    /\ Added[2].message = MsgUpperOom /\ Added[2].crash_type = OOM_KILL
    /\ Added[3].message = MsgTimedOut /\ Added[3].crash_type = KERNEL_DIED

\* C29: each kernel crash fault appends exactly one CrashRecord to the end of
\* the crash_history of the owning snapshot before the fault reaches the
\* caller, and leaves all earlier records and all other metadata keys
\* unchanged, for any sequence of repeated crashes.
C29_HistoryAppendOnly ==
    LET h == History(crash.metadata)
        h0 == History(crash.metadata0)
        others == DOMAIN crash.metadata0 \ {"crash_history"} IN
    /\ DOMAIN crash.metadata \ {"crash_history"} = others
    /\ \A k \in others : crash.metadata[k] = crash.metadata0[k]
    /\ Len(h) >= Len(h0)
    /\ SubSeq(h, 1, Len(h0)) = h0
    /\ Len(Added) = Len(crash.faults) + (IF crash.pc = "raise" THEN 1 ELSE 0)
    /\ \A k \in 1..Len(crash.faults) :
          /\ Added[k].message = crash.faults[k]
          /\ Added[k].timestamp = k

\* The third crash of a snapshot that had a record and a key of its user is
\* recorded and has not reached the caller yet.
C29_Witness ==
    /\ crash.pc = "raise"
    /\ Len(crash.faults) = 2
    /\ Len(History(crash.metadata0)) = 1
    /\ "some_key" \in DOMAIN crash.metadata0
    /\ Len(History(crash.metadata)) = 4

\* -------------------------------------------------------- browser sessions

\* C30: BrowserSession.close() ends the instance of the session: once close
\* has returned, the instance that BrowserSession.create started runs no more.
C30_CloseStopsInstance ==
    \A s \in Sessions : browser.sess[s] = "closed" => s \notin browser.running

\* ----------------------------------------------------- apply without a key

\* The record of the store with this id.
RecordOf(id) == CHOOSE s \in Range(store) : s.id = id

\* C31: when apply is called with no key, caching is skipped entirely: the
\* store is never queried, no snapshot is deleted even if invalidate is
\* truthy, the operation always executes, and the resulting snapshot is
\* persisted without a digest.
C31_NoKeyNoCaching ==
    \A t \in Threads :
        (th[t].op # NoOp /\ th[t].key = <<>> /\ th[t].pc # "list") =>
            /\ ~th[t].queried
            /\ th[t].listed = <<>>
            /\ th[t].deleted = {}
            /\ SubSeq(store, 1, Len(th[t].store0)) = th[t].store0
            /\ th[t].outcome # "hit"
            /\ th[t].pc \in {"func", "snapshot", "done"} => th[t].started = 1
            /\ th[t].pc \in {"snapshot", "done"} => th[t].executed
            /\ th[t].outcome = "ok" =>
                  /\ th[t].persisted \in StoreIds(store)
                  /\ RecordOf(th[t].persisted).digest = None

\* run("", invalidate=True) on the root, while the store holds a snapshot
\* whose digest is that of the empty key, has returned a new snapshot.
C31_Witness ==
    /\ th[1].op = OpRun(<<>>)
    /\ th[1].inv = "True"
    /\ th[1].base.id = Root.id
    /\ \E s \in Range(store) : s.digest = key_to_digest(Root, <<>>)
    /\ th[1].pc = "done"
    /\ th[1].outcome = "ok"

\* ------------------------------------------------- what apply snapshots

\* C32: on a cache miss apply snapshots the instance returned by the
\* operation function when it returns one, and the instance it obtained from
\* the provider when the function returns nothing; the new handle wraps that
\* snapshot and the handle apply was called on is not modified.
C32_SnapshotsReturnedInstance ==
    \A t \in Threads :
        th[t].outcome = "ok" =>
            /\ th[t].got # 0
            /\ th[t].res = 0 => th[t].snapped = th[t].got
            /\ th[t].res # 0 => th[t].snapped = th[t].res
            /\ th[t].result = th[t].persisted
            /\ th[t].persisted = store[Len(store)].id
            /\ th[t].persisted \notin StoreIds(th[t].store0)
            /\ th[t].persisted # th[t].base.id
            /\ \E i \in 1..Len(th[t].store0) :
                  th[t].store0[i] = th[t].base /\ store[i] = th[t].base

\* The function of the caller returned an instance it started itself, and
\* apply snapshotted that one.
C32_Witness ==
    /\ th[1].op.kind = APPLY
    /\ th[1].outcome = "ok"
    /\ th[1].res # 0
    /\ th[1].res # th[1].got
    /\ th[1].snapped = th[1].res

\* ------------------------------------------------- the order of the stream

\* The chunks the stream has yielded of one descriptor, in the order of
\* the events.
RECURSIVE YieldedOf(_, _)
YieldedOf(events, fd) ==
    IF events = <<>> THEN <<>>
    ELSE (IF Head(events).from = fd THEN <<Head(events).payload>> ELSE <<>>)
         \o YieldedOf(Tail(events), fd)

Exists(fs, n) == n \in fs.dirs \cup fs.files

\* The remote paths execute_copy may hand to ensure_remote_dir or copy_file
\* for a call: dest, and the source's name below dest.
CopyPaths(op) ==
    {op.dest, RStripSlash(op.dest) \o <<"/">> \o PathName(op.src)}

\* C34: during a copy_, every mkdir(p) is issued on a file system where the
\* parent of p exists (the root and the session's directory always do), a put
\* is issued only once the path of its directory exists, a file that has been
\* placed lies in a directory, and the recursion of ensure_remote_dir makes
\* at most one call for each component of the path and one more.
C34_ParentsBeforeChildren ==
    \A t \in Threads :
        th[t].op.kind = COPY =>
            /\ \A i \in 1..Len(th[t].calls) :
                  LET c == th[t].calls[i] IN
                  /\ c.at.parts # <<>>
                  /\ Exists(c.fs, ParentNode(c.at))
                  /\ c.op = "put" /\ c.at \in th[t].puts
                        => ParentNode(c.at) \in c.fs.dirs
            /\ \A q \in CopyPaths(th[t].op) :
                  EnsureDepth(q) <= Len(Parts(q)) + 1

\* A copy_ of a directory to d/e where neither d nor d/e existed: d was made
\* first, d/e after it, s below it, and the file was put last.
C34_Witness ==
    /\ th[1].op.kind = COPY
    /\ th[1].op.dest = <<"d", "/", "e">>
    /\ th[1].pc = "snapshot"
    /\ Len(th[1].calls) = 4
    /\ th[1].calls[1].op = "mkdir"
    /\ th[1].calls[1].at = Resolve(<<"d">>)
    /\ th[1].calls[2].op = "mkdir"
    /\ th[1].calls[2].at = Resolve(<<"d", "/", "e">>)
    /\ th[1].calls[3].op = "mkdir"
    /\ th[1].calls[4].op = "put"
    /\ EnsureDepth(<<"d", "/", "e">>) = 3

\* ------------------------------------------------------ the truncation marker

\* The places of the rendered text that hold the truncation marker.
Markers == {i \in 1..Len(out.text) : out.text[i] = <<ELLIPSIS, "dim">>}

\* C35: the rendered progress text holds the truncation marker at most once,
\* and holds it only if at least one line has been dropped from the buffer,
\* that is if more lines were fed than the buffer keeps.
C35_MarkerOnlyAfterDrop ==
    /\ Cardinality(Markers) <= 1
    /\ Markers # {} => Len(LinesOf(out.chunks)) > out.max_lines

\* ------------------------------------------- a failure after an invalidation

\* The records the store held for the key of the call of t when it was made.
PriorEntries(t) == ListByDigest(th[t].store0, CacheDigest(t))

\* C36: when an operation called with invalidate=True fails after cache
\* entries existed for its key, those entries have been deleted and are not
\* restored: after the failed call the store holds no snapshot for the key.
C36_FailedInvalidationLosesEntries ==
    \A t \in Threads :
        (FuncRaised(t) /\ th[t].inv = "True" /\ th[t].key # <<>>
            /\ PriorEntries(t) # <<>>)
        => /\ th[t].deleted = {e.id : e \in Range(PriorEntries(t))}
           /\ StoreIds(store) \cap th[t].deleted = {}
           /\ ListByDigest(store, CacheDigest(t)) = <<>>
           /\ th[t].persisted = <<>>

\* An invalidating run of a command that had two cache entries has failed
\* with a nonzero exit code.
C36_Witness ==
    /\ FuncRaised(1)
    /\ th[1].op.kind = RUN
    /\ th[1].inv = "True"
    /\ Len(PriorEntries(1)) = 2
    /\ th[1].exit # 0

\* --------------------------------------------- a call from inside a pause

\* Thread t waits for the lock in add_panel or refresh.
AtLock(t) == ui.pc[t] \in {"lock_add", "lock_refresh"}

\* Thread t is in add_panel or refresh past the lock.
PastLock(t) == ui.pc[t] \in {"append", "render", "unlock"}

\* C37: a thread that calls add_panel or refresh from inside its own pause
\* scope never returns from that call: from then on it waits for the lock it
\* holds itself, its pause scope never reaches its end, and no other thread
\* gets past the lock in add_panel, refresh or pause.
C37_NestedCallBlocksForever ==
    \A t \in Threads :
        [](ui.inner[t]
           => [](/\ ui.inner[t]
                 /\ AtLock(t)
                 /\ ui.lock = t
                 /\ \A u \in Threads \ {t} : ~PastLock(u) /\ ~InPause(u)))

\* Thread 1 called add_panel inside its pause scope and waits; thread 2 has
\* called refresh since and waits as well.
C37_Witness ==
    /\ ui.inner[1]
    /\ ui.pc[1] = "lock_add"
    /\ ui.lock = 1
    /\ ui.pc[2] = "lock_refresh"

\* ------------------------------------------------ the digest of do's check

\* The records of the store with the id a call persisted.
PersistedBy(t) == {s \in Range(store) : s.id = th[t].persisted}

\* C38: the digest do looks up in its own cache check is the digest under
\* which a successful do persists its snapshot, so a second identical do
\* right after a successful one is answered by do's own check.
C38_DoChecksWhereItPersists ==
    \A t \in Threads :
        th[t].op.kind = DO =>
            /\ th[t].outcome = "ok"
                  => \A s \in PersistedBy(t) : s.digest = DoDigest(th[t].base, th[t].op)
            /\ (RepeatsLastCall(t) /\ th[t].inv = "False" /\ th[t].pc = "done")
                  => th[t].outcome = "hit" /\ th[t].hitBy = "do"

\* ------------------------------------------------ operations of two kinds

\* C39: on one base, a call never has the cache digest of a layer that an
\* operation of another kind stored, and is never answered with such a
\* layer: run, copy_, do and resize do not share cache entries.
C39_KindsShareNoEntry ==
    \A t \in Threads : \A s \in Layers :
        (InCall(t) /\ BaseOf(th[t].base) = s.base /\ th[t].op.kind # s.by.kind)
        => /\ CacheDigest(t) # s.digest
           /\ th[t].outcome = "hit" => th[t].result # s.id

\* ------------------------------------------------- the end of the channel

\* instance_exec has returned an exit code.
ExecReturned == exec.consumer = "instance_exec" /\ exec.pc = "returned"

\* C40: once instance_exec has returned an exit code, ssh_stream has run its
\* chan.close(): the generator has reached its end and the channel is closed.
C40_ChannelClosedAfterReturn ==
    ExecReturned => gen.pc = "stopped" /\ chan.closed

====
